---- MODULE Spec2Model ----
(***************************************************************************)
(* psynotes: the transcription service (main.py), its French medical     *)
(* text-correction engine (medical_abbreviations.py), and the structured  *)
(* notes service (structured-notes-service/main.py).                      *)
(*                                                                         *)
(* A text is a sequence of characters; a character is a one-character     *)
(* string, and a character outside ASCII is written as its base letter    *)
(* followed by its accent ("e'" is e-acute, "e~" e-grave, "e^"            *)
(* e-circumflex, "i:" i-diaeresis, "c," c-cedilla, "oe"/"OE" the          *)
(* ligature; "NL" newline, "TAB" tab, "BS" backslash).                    *)
(***************************************************************************)
EXTENDS Integers, Sequences, FiniteSets, TLC

VARIABLES
    \* ---- the transcription service, for one submission ----
    pc,                 \* where the submission is
    request,            \* the request: its endpoint, and the TranscriptionRequest's
                        \* file_id, file_url, language, specialty
    env,                \* the FRONTEND_URL environment variable (None when unset)
    response,           \* what the endpoint answered
    queued,             \* the background tasks added
    files,              \* the temporary files that exist
    downloads,          \* the downloads started
    optimized_audio,    \* transcribe_audio_file's optimized_audio
    file_size,          \* its size in MB
    total_duration,     \* what split_audio's ffprobe reported
    chunks,             \* transcribe_audio_file's chunks
    results,            \* what transcribe_chunk returned, chunk by chunk
    transcriptions,     \* transcribe_audio_file's transcriptions
    transcription_text, \* process_transcription's transcription_text
    notifications,      \* the requests.post calls made to the frontend
    terminal,           \* the terminal states the submission has entered
    stages,             \* the stages the submission has gone through, in order
    \* ---- the text-correction engine, called as a function ----
    text,           \* the raw text handed to the correction functions
    specialty,      \* the specialty argument (None when absent)
    stage,          \* post_process_transcription's value of processed after each stage
    processed,      \* post_process_transcription(text, specialty)
    again,          \* post_process_transcription(processed, specialty)
    normalized,     \* normalize_medical_terms(text)
    calls,          \* the calls made so far
    \* ---- the structured notes service, for one request ----
    note_pc,            \* where the request to POST /structure-note is
    transcription,      \* the request's transcription_text
    completions,        \* the calls of the generative backend made
    completion,         \* what the last call gave: an exception, or a content
    structured_note,    \* what generate_structured_note returned
    note_response,      \* what POST /structure-note answered
    \* ---- two submissions in flight at the same time ----
    task,               \* the state of each process_transcription task
    disk                \* the temporary files that exist, of both tasks

None == "None"

(***************************************************************************)
(* Characters and Python's re semantics                                    *)
(***************************************************************************)
LowerOf ==
    ("A" :> "a") @@ ("B" :> "b") @@ ("C" :> "c") @@ ("D" :> "d") @@ ("E" :> "e") @@
    ("F" :> "f") @@ ("G" :> "g") @@ ("H" :> "h") @@ ("I" :> "i") @@ ("J" :> "j") @@
    ("K" :> "k") @@ ("L" :> "l") @@ ("M" :> "m") @@ ("N" :> "n") @@ ("O" :> "o") @@
    ("P" :> "p") @@ ("Q" :> "q") @@ ("R" :> "r") @@ ("S" :> "s") @@ ("T" :> "t") @@
    ("U" :> "u") @@ ("V" :> "v") @@ ("W" :> "w") @@ ("X" :> "x") @@ ("Y" :> "y") @@
    ("Z" :> "z") @@ ("E'" :> "e'") @@ ("E~" :> "e~") @@ ("E^" :> "e^") @@
    ("A~" :> "a~") @@ ("A^" :> "a^") @@ ("C," :> "c,") @@ ("I:" :> "i:") @@
    ("O^" :> "o^") @@ ("U^" :> "u^") @@ ("OE" :> "oe")

UpperChars == DOMAIN LowerOf

\* str.lower() on one character, given the table of the upper-case letters
LowerIn(table, c) == IF c \in DOMAIN table THEN table[c] ELSE c

Lower(c) == LowerIn(LowerOf, c)

\* str.lower()
LowerText(t) == [i \in 1..Len(t) |-> Lower(t[i])]

Letters == UpperChars \cup {Lower(c) : c \in UpperChars}

Digits == {"0", "1", "2", "3", "4", "5", "6", "7", "8", "9"}

Spaces == {" ", "NL", "TAB"}

\* \s
IsSpace(c) == c \in Spaces

\* \w : a letter (of any case, accented or not), a digit or the underscore
WordChars == Letters \cup Digits \cup {"_"}

\* \b at the gap before position i (between t[i-1] and t[i]), given the set \w
BoundaryIn(w, t, i) ==
    (i > 1 /\ i - 1 <= Len(t) /\ t[i - 1] \in w) # (i >= 1 /\ i <= Len(t) /\ t[i] \in w)

WordBoundary(t, i) == BoundaryIn(WordChars, t, i)

\* the index after the longest run of characters of S that starts at position i
RunEnd(t, i, S) ==
    CHOOSE j \in i..(Len(t) + 1) :
        /\ \A k \in i..(j - 1) : t[k] \in S
        /\ j = Len(t) + 1 \/ t[j] \notin S

Slice(t, a, b) == SubSeq(t, a, b - 1)

\* What a pattern does at one position of a text: it does not match there (end = 0),
\* or it matches the characters up to end - 1 and the match is replaced by out.
NoMatch == [end |-> 0, out |-> <<>>]

\* the first position from i on where the pattern matches, 0 when there is none
FirstHit(t, m, i) ==
    IF \E j \in i..Len(t) : m[j].end # 0
    THEN CHOOSE j \in i..Len(t) : m[j].end # 0 /\ \A k \in i..(j - 1) : m[k].end = 0
    ELSE 0

\* re.sub on a text t, given the match m[j] of the pattern at each position j: the
\* leftmost match is replaced, and the search goes on after it (no pattern of this
\* program matches the empty string)
RECURSIVE ReSubFrom(_, _, _)
ReSubAt(t, m, i, j) ==
    IF j = 0 THEN SubSeq(t, i, Len(t))
    ELSE SubSeq(t, i, j - 1) \o m[j].out \o ReSubFrom(t, m, m[j].end)

ReSubFrom(t, m, i) == ReSubAt(t, m, i, FirstHit(t, m, i))

\* A text as the substitutions read it: the text t, its lower-cased form lt, and the
\* pairs of adjacent characters of lt. A pattern of two or more characters whose first
\* two characters are not adjacent in the text occurs nowhere in it, which is decided
\* without scanning the text.
ScannedLower(t, lt) ==
    [t |-> t, lt |-> lt, pairs |-> {SubSeq(lt, i, i + 1) : i \in 1..(Len(lt) - 1)}]

Scanned(t) == ScannedLower(t, LowerText(t))

MayOccur(p, s) == Len(p) < 2 \/ LowerText(SubSeq(p, 1, 2)) \in s.pairs

\* the lower-cased pattern lp occurs in the lower-cased text lt at position i: how
\* re.IGNORECASE compares a literal pattern with the text
MatchAt(lp, lt, i) ==
    /\ i + Len(lp) - 1 <= Len(lt)
    /\ SubSeq(lt, i, i + Len(lp) - 1) = lp

\* re.sub of the matches m on a scanned text
SubMatches(m, s) ==
    IF \E j \in 1..Len(s.t) : m[j].end # 0 THEN Scanned(ReSubFrom(s.t, m, 1)) ELSE s

\* the substitution of r for the lower-cased literal lp wherever it occurs
SubLower(lp, r, s) ==
    SubMatches([j \in 1..Len(s.t) |->
                   IF MatchAt(lp, s.lt, j) THEN [end |-> j + Len(lp), out |-> r]
                   ELSE NoMatch],
               s)

\* re.compile(p, re.IGNORECASE).sub(r, t) for a literal, non-empty pattern p, on a
\* scanned text
SubScanned(p, r, s) == IF MayOccur(p, s) THEN SubLower(LowerText(p), r, s) ELSE s

\* the substitution of r for the lower-cased literal lp where it occurs between two \b
SubWordLower(lp, r, s) ==
    SubMatches([j \in 1..Len(s.t) |->
                   IF /\ MatchAt(lp, s.lt, j)
                      /\ WordBoundary(s.t, j)
                      /\ WordBoundary(s.t, j + Len(lp))
                   THEN [end |-> j + Len(lp), out |-> r]
                   ELSE NoMatch],
               s)

\* re.compile(r'\b' + p + r'\b', re.IGNORECASE).sub(r, t) for a literal pattern p of
\* word characters, on a scanned text
SubWordScanned(p, r, s) == IF MayOccur(p, s) THEN SubWordLower(LowerText(p), r, s) ELSE s

(* medical_abbreviations.py:11-54, pairs <<key, value>> in dictionary order *)
STANDARD_ABBREVIATIONS ==
  << <<<<"H","T","A">>, <<"H","y","p","e","r","t","e","n","s","i","o","n"," ","A","r","t","e'","r","i","e","l","l","e">>>>,
     <<<<"M","P","O","C">>, <<"M","a","l","a","d","i","e"," ","P","u","l","m","o","n","a","i","r","e"," ","O","b","s","t","r","u","c","t","i","v","e"," ","C","h","r","o","n","i","q","u","e">>>>,
     <<<<"M","C","A","S">>, <<"M","a","l","a","d","i","e"," ","C","o","r","o","n","a","r","i","e","n","n","e"," ","A","t","h","e'","r","o","s","c","l","e'","r","o","t","i","q","u","e">>>>,
     <<<<"M","C","1","S">>, <<"M","a","l","a","d","i","e"," ","C","o","r","o","n","a","r","i","e","n","n","e"," ","1"," ","S","t","e'","n","o","s","e">>>>,
     <<<<"M","V","A","S">>, <<"M","a","l","a","d","i","e"," ","V","a","s","c","u","l","a","i","r","e"," ","A","t","h","e'","r","o","s","c","l","e'","r","o","t","i","q","u","e">>>>,
     <<<<"D","B">>, <<"D","i","a","b","e~","t","e">>>>,
     <<<<"F","A">>, <<"F","i","b","r","i","l","l","a","t","i","o","n"," ","A","u","r","i","c","u","l","a","i","r","e">>>>,
     <<<<"I","C">>, <<"I","n","s","u","f","f","i","s","a","n","c","e"," ","C","a","r","d","i","a","q","u","e">>>>,
     <<<<"I","R","C">>, <<"I","n","s","u","f","f","i","s","a","n","c","e"," ","R","e'","n","a","l","e"," ","C","h","r","o","n","i","q","u","e">>>>,
     <<<<"I","V","R","S">>, <<"I","n","f","e","c","t","i","o","n"," ","d","e","s"," ","V","o","i","e","s"," ","R","e","s","p","i","r","a","t","o","i","r","e","s"," ","S","u","p","e'","r","i","e","u","r","e","s">>>>,
     <<<<"S","x">>, <<"S","y","m","p","t","o^","m","e","s">>>>,
     <<<<"R","x">>, <<"P","r","e","s","c","r","i","p","t","i","o","n"," ","/"," ","M","e'","d","i","c","a","m","e","n","t","s">>>>,
     <<<<"A","T","C","D">>, <<"A","n","t","e'","c","e'","d","e","n","t","s">>>>,
     <<<<"E","P">>, <<"E","x","a","m","e","n"," ","P","h","y","s","i","q","u","e">>>>,
     <<<<"M","I">>, <<"M","e","m","b","r","e"," ","I","n","f","e'","r","i","e","u","r">>>>,
     <<<<"M","S">>, <<"M","e","m","b","r","e"," ","S","u","p","e'","r","i","e","u","r">>>>,
     <<<<"B","1","B","2">>, <<"B","r","u","i","t","s"," ","c","a","r","d","i","a","q","u","e","s"," ","n","o","r","m","a","u","x">>>>,
     <<<<"M","V">>, <<"M","u","r","m","u","r","e"," ","V","e'","s","i","c","u","l","a","i","r","e">>>>,
     <<<<"S","A","G">>, <<"S","a","n","s"," ","A","u","c","u","n"," ","P","r","o","b","l","e~","m","e"," ","/"," ","S","t","a","b","l","e">>>>,
     <<<<"T","R","S">>, <<"T","r","o","u","b","l","e"," ","R","e","s","p","i","r","a","t","o","i","r","e"," ","d","u"," ","S","o","m","m","e","i","l">>>>,
     <<<<"S","A","O","S">>, <<"S","y","n","d","r","o","m","e"," ","d","'","A","p","n","e'","e"," ","O","b","s","t","r","u","c","t","i","v","e"," ","d","u"," ","S","o","m","m","e","i","l">>>>,
     <<<<"S","A","R","M">>, <<"S","t","a","p","h","y","l","o","c","o","c","c","u","s"," ","A","u","r","e","u","s"," ","R","e'","s","i","s","t","a","n","t"," ","a~"," ","l","a"," ","M","e'","t","h","i","c","i","l","l","i","n","e">>>>,
     <<<<"B","P","C","O">>, <<"B","r","o","n","c","h","o","p","n","e","u","m","o","p","a","t","h","i","e"," ","C","h","r","o","n","i","q","u","e"," ","O","b","s","t","r","u","c","t","i","v","e">>>>,
     <<<<"A","I","N","S">>, <<"A","n","t","i","-","I","n","f","l","a","m","m","a","t","o","i","r","e","s"," ","N","o","n"," ","S","t","e'","r","o","i:","d","i","e","n","s">>>>,
     <<<<"A","V","C">>, <<"A","c","c","i","d","e","n","t"," ","V","a","s","c","u","l","a","i","r","e"," ","C","e'","r","e'","b","r","a","l">>>>,
     <<<<"I","C","T">>, <<"I","s","c","h","e'","m","i","e"," ","C","e'","r","e'","b","r","a","l","e"," ","T","r","a","n","s","i","t","o","i","r","e">>>>,
     <<<<"M","A","P","A">>, <<"M","e","s","u","r","e"," ","A","m","b","u","l","a","t","o","i","r","e"," ","d","e"," ","l","a"," ","P","r","e","s","s","i","o","n"," ","A","r","t","e'","r","i","e","l","l","e">>>>,
     <<<<"E","C","B","U">>, <<"E","x","a","m","e","n"," ","C","y","t","o","b","a","c","t","e'","r","i","o","l","o","g","i","q","u","e"," ","d","e","s"," ","U","r","i","n","e","s">>>>,
     <<<<"N","F","S">>, <<"N","u","m","e'","r","a","t","i","o","n"," ","F","o","r","m","u","l","e"," ","S","a","n","g","u","i","n","e">>>>,
     <<<<"E","C","G">>, <<"E'","l","e","c","t","r","o","c","a","r","d","i","o","g","r","a","m","m","e">>>>,
     <<<<"E","T","T">>, <<"E'","c","h","o","c","a","r","d","i","o","g","r","a","p","h","i","e"," ","T","r","a","n","s","-","T","h","o","r","a","c","i","q","u","e">>>>,
     <<<<"E","T","O">>, <<"E'","c","h","o","c","a","r","d","i","o","g","r","a","p","h","i","e"," ","T","r","a","n","s","-","OE","s","o","p","h","a","g","i","e","n","n","e">>>>,
     <<<<"S","C","A">>, <<"S","y","n","d","r","o","m","e"," ","C","o","r","o","n","a","r","i","e","n"," ","A","i","g","u">>>>,
     <<<<"I","D","M">>, <<"I","n","f","a","r","c","t","u","s"," ","D","u"," ","M","y","o","c","a","r","d","e">>>>,
     <<<<"F","E","V","G">>, <<"F","r","a","c","t","i","o","n"," ","d","'","E'","j","e","c","t","i","o","n"," ","d","u"," ","V","e","n","t","r","i","c","u","l","e"," ","G","a","u","c","h","e">>>>,
     <<<<"B","B","G">>, <<"B","l","o","c"," ","d","e"," ","B","r","a","n","c","h","e"," ","G","a","u","c","h","e">>>>,
     <<<<"B","B","D">>, <<"B","l","o","c"," ","d","e"," ","B","r","a","n","c","h","e"," ","D","r","o","i","t">>>>,
     <<<<"E","S","V">>, <<"E","x","t","r","a","s","y","s","t","o","l","e"," ","V","e","n","t","r","i","c","u","l","a","i","r","e">>>>,
     <<<<"E","S","A">>, <<"E","x","t","r","a","s","y","s","t","o","l","e"," ","A","u","r","i","c","u","l","a","i","r","e">>>>,
     <<<<"T","S","V","P">>, <<"T","a","c","h","y","c","a","r","d","i","e"," ","S","u","p","r","a","V","e","n","t","r","i","c","u","l","a","i","r","e"," ","P","a","r","o","x","y","s","t","i","q","u","e">>>>,
     <<<<"B","A","V">>, <<"B","l","o","c"," ","A","u","r","i","c","u","l","o","-","V","e","n","t","r","i","c","u","l","a","i","r","e">>>>,
     <<<<"O","A","P">>, <<"OE","d","e~","m","e"," ","A","i","g","u"," ","d","u"," ","P","o","u","m","o","n">>>> >>

(* medical_abbreviations.py:60-77 *)
QUEBEC_MEDICAL_TERMS ==
  << <<<<"p","o","g","n","e","r"," ","u","n","e"," ","g","r","i","p","p","e">>, <<"c","o","n","t","r","a","c","t","e","r"," ","u","n","e"," ","g","r","i","p","p","e">>>>,
     <<<<"e^","t","r","e"," ","m","a","g","a","n","e'">>, <<"e^","t","r","e"," ","f","a","t","i","g","u","e'","/","a","f","f","a","i","b","l","i">>>>,
     <<<<"a","v","o","i","r"," ","m","a","l"," ","a~"," ","l","a"," ","p","l","o","t","t","e">>, <<"d","o","u","l","e","u","r"," ","p","e","l","v","i","e","n","n","e"," ","(","t","e","r","m","e"," ","f","a","m","i","l","i","e","r",")">>>>,
     <<<<"e^","t","r","e"," ","a~"," ","b","o","u","t","e">>, <<"e^","t","r","e"," ","e'","p","u","i","s","e'">>>>,
     <<<<"a","v","o","i","r"," ","d","e"," ","l","a"," ","m","i","s","e~","r","e"," ","a~"," ","r","e","s","p","i","r","e","r">>, <<"a","v","o","i","r"," ","d","e"," ","l","a"," ","d","i","f","f","i","c","u","l","t","e'"," ","a~"," ","r","e","s","p","i","r","e","r">>>>,
     <<<<"e^","t","r","e"," ","e'","c","o","e","u","r","e'">>, <<"e^","t","r","e"," ","d","e'","g","o","u^","t","e'","/","f","a","t","i","g","u","e'"," ","d","'","u","n","e"," ","s","i","t","u","a","t","i","o","n">>>>,
     <<<<"g","a","r","r","o","c","h","e","r"," ","d","e","s"," ","p","i","l","u","l","e","s">>, <<"p","r","e","s","c","r","i","r","e"," ","d","e","s"," ","m","e'","d","i","c","a","m","e","n","t","s"," ","d","e"," ","f","a","c,","o","n"," ","e","x","c","e","s","s","i","v","e">>>>,
     <<<<"c","h","i","a","l","e","r">>, <<"s","e"," ","p","l","a","i","n","d","r","e">>>>,
     <<<<"e^","t","r","e"," ","e","n"," ","m","a","u","d","i","t">>, <<"e^","t","r","e"," ","e","n"," ","c","o","l","e~","r","e">>>>,
     <<<<"b","a","r","r","e","r">>, <<"v","e","r","r","o","u","i","l","l","e","r">>>>,
     <<<<"s","e"," ","s","e","n","t","i","r"," ","t","o","u","t"," ","c","r","o","c","h","e">>, <<"s","e"," ","s","e","n","t","i","r"," ","m","a","l">>>>,
     <<<<"a","v","o","i","r"," ","d","e","s"," ","e'","t","o","u","r","d","i","s","s","e","m","e","n","t","s">>, <<"a","v","o","i","r"," ","d","e","s"," ","v","e","r","t","i","g","e","s">>>>,
     <<<<"a","v","o","i","r"," ","l","e"," ","c","oe","u","r"," ","g","r","o","s">>, <<"e^","t","r","e"," ","t","r","i","s","t","e">>>>,
     <<<<"a","v","o","i","r"," ","l","e"," ","s","o","u","f","f","l","e"," ","c","o","u","r","t">>, <<"e^","t","r","e"," ","e","s","s","o","u","f","f","l","e'">>>>,
     <<<<"a","v","o","i","r"," ","l","e","s"," ","b","l","e","u","s">>, <<"e^","t","r","e"," ","d","e'","p","r","i","m","e'">>>>,
     <<<<"a","v","o","i","r"," ","m","a","l"," ","a","u"," ","c","oe","u","r">>, <<"a","v","o","i","r"," ","l","a"," ","n","a","u","s","e'","e">>>> >>

(* medical_abbreviations.py SPECIALTY_TERMS["cardiology"] *)
SPECIALTY_cardiology ==
  << <<<<"S","C","A">>, <<"S","y","n","d","r","o","m","e"," ","C","o","r","o","n","a","r","i","e","n"," ","A","i","g","u">>>>,
     <<<<"I","D","M">>, <<"I","n","f","a","r","c","t","u","s"," ","D","u"," ","M","y","o","c","a","r","d","e">>>>,
     <<<<"F","E","V","G">>, <<"F","r","a","c","t","i","o","n"," ","d","'","E'","j","e","c","t","i","o","n"," ","d","u"," ","V","e","n","t","r","i","c","u","l","e"," ","G","a","u","c","h","e">>>>,
     <<<<"B","B","G">>, <<"B","l","o","c"," ","d","e"," ","B","r","a","n","c","h","e"," ","G","a","u","c","h","e">>>>,
     <<<<"B","B","D">>, <<"B","l","o","c"," ","d","e"," ","B","r","a","n","c","h","e"," ","D","r","o","i","t">>>>,
     <<<<"E","S","V">>, <<"E","x","t","r","a","s","y","s","t","o","l","e"," ","V","e","n","t","r","i","c","u","l","a","i","r","e">>>>,
     <<<<"E","S","A">>, <<"E","x","t","r","a","s","y","s","t","o","l","e"," ","A","u","r","i","c","u","l","a","i","r","e">>>>,
     <<<<"T","S","V","P">>, <<"T","a","c","h","y","c","a","r","d","i","e"," ","S","u","p","r","a","V","e","n","t","r","i","c","u","l","a","i","r","e"," ","P","a","r","o","x","y","s","t","i","q","u","e">>>>,
     <<<<"B","A","V">>, <<"B","l","o","c"," ","A","u","r","i","c","u","l","o","-","V","e","n","t","r","i","c","u","l","a","i","r","e">>>>,
     <<<<"O","A","P">>, <<"OE","d","e~","m","e"," ","A","i","g","u"," ","d","u"," ","P","o","u","m","o","n">>>>,
     <<<<"N","S","T","E","M","I">>, <<"I","n","f","a","r","c","t","u","s"," ","s","a","n","s"," ","e'","l","e'","v","a","t","i","o","n"," ","d","u"," ","s","e","g","m","e","n","t"," ","S","T">>>>,
     <<<<"S","T","E","M","I">>, <<"I","n","f","a","r","c","t","u","s"," ","a","v","e","c"," ","e'","l","e'","v","a","t","i","o","n"," ","d","u"," ","s","e","g","m","e","n","t"," ","S","T">>>> >>

(* medical_abbreviations.py SPECIALTY_TERMS["pulmonology"] *)
SPECIALTY_pulmonology ==
  << <<<<"V","E","M","S">>, <<"V","o","l","u","m","e"," ","E","x","p","i","r","a","t","o","i","r","e"," ","M","a","x","i","m","u","m"," ","S","e","c","o","n","d","e">>>>,
     <<<<"C","V","F">>, <<"C","a","p","a","c","i","t","e'"," ","V","i","t","a","l","e"," ","F","o","r","c","e'","e">>>>,
     <<<<"E","F","R">>, <<"E","x","p","l","o","r","a","t","i","o","n"," ","F","o","n","c","t","i","o","n","n","e","l","l","e"," ","R","e","s","p","i","r","a","t","o","i","r","e">>>>,
     <<<<"P","a","O","2">>, <<"P","r","e","s","s","i","o","n"," ","p","a","r","t","i","e","l","l","e"," ","a","r","t","e'","r","i","e","l","l","e"," ","e","n"," ","O","2">>>>,
     <<<<"P","a","C","O","2">>, <<"P","r","e","s","s","i","o","n"," ","p","a","r","t","i","e","l","l","e"," ","a","r","t","e'","r","i","e","l","l","e"," ","e","n"," ","C","O","2">>>>,
     <<<<"V","N","I">>, <<"V","e","n","t","i","l","a","t","i","o","n"," ","N","o","n"," ","I","n","v","a","s","i","v","e">>>>,
     <<<<"P","P","C">>, <<"P","r","e","s","s","i","o","n"," ","P","o","s","i","t","i","v","e"," ","C","o","n","t","i","n","u","e">>>>,
     <<<<"T","D","M"," ","T","A","P">>, <<"T","o","m","o","d","e","n","s","i","t","o","m","e'","t","r","i","e"," ","T","h","o","r","a","c","o","-","A","b","d","o","m","i","n","o","-","P","e","l","v","i","e","n","n","e">>>>,
     <<<<"B","P","C","O">>, <<"B","r","o","n","c","h","o","-","P","n","e","u","m","o","p","a","t","h","i","e"," ","C","h","r","o","n","i","q","u","e"," ","O","b","s","t","r","u","c","t","i","v","e">>>>,
     <<<<"D","E","P">>, <<"D","e'","b","i","t"," ","E","x","p","i","r","a","t","o","i","r","e"," ","d","e"," ","P","o","i","n","t","e">>>>,
     <<<<"S","p","O","2">>, <<"S","a","t","u","r","a","t","i","o","n"," ","p","u","l","s","e'","e"," ","e","n"," ","O","x","y","g","e~","n","e">>>> >>

(* medical_abbreviations.py SPECIALTY_TERMS["neurology"] *)
SPECIALTY_neurology ==
  << <<<<"A","V","C">>, <<"A","c","c","i","d","e","n","t"," ","V","a","s","c","u","l","a","i","r","e"," ","C","e'","r","e'","b","r","a","l">>>>,
     <<<<"I","C","T">>, <<"I","s","c","h","e'","m","i","e"," ","C","e'","r","e'","b","r","a","l","e"," ","T","r","a","n","s","i","t","o","i","r","e">>>>,
     <<<<"S","E","P">>, <<"S","c","l","e'","r","o","s","e"," ","E","n"," ","P","l","a","q","u","e","s">>>>,
     <<<<"S","L","A">>, <<"S","c","l","e'","r","o","s","e"," ","L","a","t","e'","r","a","l","e"," ","A","m","y","o","t","r","o","p","h","i","q","u","e">>>>,
     <<<<"T","C","E">>, <<"T","r","a","u","m","a","t","i","s","m","e"," ","C","r","a^","n","i","o","-","E","n","c","e'","p","h","a","l","i","q","u","e">>>>,
     <<<<"H","T","I","C">>, <<"H","y","p","e","r","t","e","n","s","i","o","n"," ","I","n","t","r","a","c","r","a^","n","i","e","n","n","e">>>>,
     <<<<"E","E","G">>, <<"E'","l","e","c","t","r","o","e","n","c","e'","p","h","a","l","o","g","r","a","m","m","e">>>>,
     <<<<"E","M","G">>, <<"E'","l","e","c","t","r","o","m","y","o","g","r","a","m","m","e">>>>,
     <<<<"L","C","R">>, <<"L","i","q","u","i","d","e"," ","C","e'","p","h","a","l","o","-","R","a","c","h","i","d","i","e","n">>>>,
     <<<<"P","L">>, <<"P","o","n","c","t","i","o","n"," ","L","o","m","b","a","i","r","e">>>> >>

(* medical_abbreviations.py:123-139, pairs <<drug, <<variations>>>> *)
MEDICAL_DRUGS ==
  << <<<<"a","m","o","x","i","c","i","l","l","i","n","e">>, <<<<"a","m","o","x","i","c","i","l","i","n","e">>, <<"a","m","o","x","i","c","i","l","i","n">>>>>>,
     <<<<"p","a","r","a","c","e'","t","a","m","o","l">>, <<<<"p","a","r","a","c","e","t","a","m","o","l">>, <<"p","a","r","a","c","e","t","a","m","o","l","e">>>>>>,
     <<<<"i","b","u","p","r","o","f","e~","n","e">>, <<<<"i","b","u","p","r","o","f","e","n","e">>, <<"i","b","u","p","r","o","f","e","i","n">>>>>>,
     <<<<"m","e","t","f","o","r","m","i","n","e">>, <<<<"m","e","t","f","o","r","m","i","n">>, <<"m","e","t","f","o","r","m","i","n">>>>>>,
     <<<<"a","t","o","r","v","a","s","t","a","t","i","n","e">>, <<<<"a","t","o","r","v","a","s","t","a","t","i","n">>, <<"a","t","o","r","v","a","s","t","a","t","i","n","e">>>>>>,
     <<<<"r","a","m","i","p","r","i","l">>, <<<<"r","a","m","i","p","r","i","l">>, <<"r","a","m","i","p","r","i","l","l">>>>>>,
     <<<<"a","m","l","o","d","i","p","i","n","e">>, <<<<"a","m","l","o","d","i","p","i","n","e">>, <<"a","m","l","o","d","i","p","i","n","e">>>>>>,
     <<<<"l","e'","v","o","t","h","y","r","o","x","i","n","e">>, <<<<"l","e","v","o","t","h","y","r","o","x","i","n","e">>, <<"l","e","v","o","t","i","r","o","x","i","n","e">>>>>>,
     <<<<"p","a","n","t","o","p","r","a","z","o","l","e">>, <<<<"p","a","n","t","o","p","r","a","z","o","l","e">>, <<"p","a","n","t","o","p","r","a","z","o","l">>>>>>,
     <<<<"w","a","r","f","a","r","i","n","e">>, <<<<"w","a","r","f","a","r","i","n","e">>, <<"w","a","r","f","a","r","i","n">>>>>>,
     <<<<"c","l","o","p","i","d","o","g","r","e","l">>, <<<<"c","l","o","p","i","d","o","g","r","e","l">>, <<"c","l","o","p","i","d","o","g","r","e","l">>>>>>,
     <<<<"l","o","r","a","z","e'","p","a","m">>, <<<<"l","o","r","a","z","e","p","a","m">>, <<"l","o","r","a","z","e","p","a","m">>>>>>,
     <<<<"z","o","p","i","c","l","o","n","e">>, <<<<"z","o","p","i","c","l","o","n","e">>, <<"z","o","p","i","c","l","o","n","e">>>>>>,
     <<<<"p","r","e","d","n","i","s","o","n","e">>, <<<<"p","r","e","d","n","i","s","o","n","e">>, <<"p","r","e","d","n","i","s","o","n","e">>>>>>,
     <<<<"s","a","l","b","u","t","a","m","o","l">>, <<<<"s","a","l","b","u","t","a","m","o","l">>, <<"s","a","l","b","u","t","a","m","o","l">>>>>> >>

(* medical_abbreviations.py:142-171 *)
COMMON_ERRORS ==
  << <<<<"t","o","x","i","c","o","i:","d","e"," ","a","f","f","e","c","t","e'">>, <<"t","r","o","u","b","l","e"," ","s","c","h","i","z","o","-","a","f","f","e","c","t","i","f">>>>,
     <<<<"m","a","m","m","i","f","e'","r","i","e","n">>, <<"m","e","m","b","r","e"," ","i","n","f","e'","r","i","e","u","r">>>>,
     <<<<"p","l","a","n","e~","t","e"," ","g","e'","n","e'","r","a","l","e">>, <<"p","a","s"," ","d","'","e'","t","a","t"," ","g","e'","n","e'","r","a","l">>>>,
     <<<<"s","y","n","d","r","o","m","e"," ","c","o","r","o","n","a","i","r","e"," ","r","e'","g","u","l","i","e","r">>, <<"s","y","n","d","r","o","m","e"," ","c","o","r","o","n","a","r","i","e","n">>>>,
     <<<<"c","o","u","p"," ","d","e"," ","c","o","e","u","r">>, <<"c","o","u",","," ","c","o","e","u","r">>>>,
     <<<<"M","C","R","S">>, <<"M","C","1","S">>>>,
     <<<<"V","R","S">>, <<"M","V","A","S">>>>,
     <<<<"d","i","s","p","n","e'">>, <<"d","y","s","p","n","e'","e">>>>,
     <<<<"e","d","e~","m","e">>, <<"oe","d","e~","m","e">>>>,
     <<<<"i","s","k","e'","m","i","e">>, <<"i","s","c","h","e'","m","i","e">>>>,
     <<<<"p","a","r","e","s","t","e'","s","i","e">>, <<"p","a","r","e","s","t","h","e'","s","i","e">>>>,
     <<<<"d","i","s","e","s","t","e'","s","i","e">>, <<"d","y","s","e","s","t","h","e'","s","i","e">>>>,
     <<<<"d","i","s","f","a","g","i","e">>, <<"d","y","s","p","h","a","g","i","e">>>>,
     <<<<"d","i","s","a","r","t","r","i","e">>, <<"d","y","s","a","r","t","h","r","i","e">>>>,
     <<<<"f","i","b","u","l","a","t","i","o","n">>, <<"f","i","b","r","i","l","l","a","t","i","o","n">>>>,
     <<<<"a","u","r","i","c","u","l","e~","r","e">>, <<"a","u","r","i","c","u","l","a","i","r","e">>>>,
     <<<<"v","e","n","t","r","i","c","u","l","e~","r","e">>, <<"v","e","n","t","r","i","c","u","l","a","i","r","e">>>>,
     <<<<"t","a","q","u","i","c","a","r","d","i","e">>, <<"t","a","c","h","y","c","a","r","d","i","e">>>>,
     <<<<"b","r","a","d","i","c","a","r","d","i","e">>, <<"b","r","a","d","y","c","a","r","d","i","e">>>>,
     <<<<"b","r","o","n","c","h","o","-","s","p","a","s","m","e">>, <<"b","r","o","n","c","h","o","s","p","a","s","m","e">>>>,
     <<<<"p","n","e","u","m","o","n","i">>, <<"p","n","e","u","m","o","n","i","e">>>>,
     <<<<"a","s","m","a","t","i","q","u","e">>, <<"a","s","t","h","m","a","t","i","q","u","e">>>>,
     <<<<"e'","t","a","t"," ","g","e'","n","e'","r","a","l","e">>, <<"e'","t","a","t"," ","g","e'","n","e'","r","a","l">>>>,
     <<<<"m","e","m","b","r","e"," ","i","n","f","e'","r","i","e","u","r","s">>, <<"m","e","m","b","r","e","s"," ","i","n","f","e'","r","i","e","u","r","s">>>>,
     <<<<"m","e","m","b","r","e"," ","s","u","p","e'","r","i","e","u","r","s">>, <<"m","e","m","b","r","e","s"," ","s","u","p","e'","r","i","e","u","r","s">>>>,
     <<<<"t","e","n","s","i","o","n"," ","a","r","t","e'","r","i","e","l">>, <<"t","e","n","s","i","o","n"," ","a","r","t","e'","r","i","e","l","l","e">>>>,
     <<<<"f","r","e'","q","u","e","n","c","e"," ","c","a","r","d","i","a","q","u","e">>, <<"f","r","e'","q","u","e","n","c","e"," ","c","a","r","d","i","a","q","u","e">>>>,
     <<<<"f","r","e'","q","u","e","n","c","e"," ","r","e","s","p","i","r","a","t","o","i","r">>, <<"f","r","e'","q","u","e","n","c","e"," ","r","e","s","p","i","r","a","t","o","i","r","e">>>> >>
\* a dictionary is kept as its items <<key, value>> in insertion order
HasKey(d, key) == \E n \in 1..Len(d) : d[n][1] = key

Get(d, key) == d[CHOOSE n \in 1..Len(d) : d[n][1] = key][2]

\* d[key] = value
DictSet(d, key, value) ==
    IF HasKey(d, key)
    THEN [n \in 1..Len(d) |-> IF d[n][1] = key THEN <<key, value>> ELSE d[n]]
    ELSE Append(d, <<key, value>>)

\* {v.lower(): k for k, v in d.items()}
RECURSIVE ReverseItems(_, _, _)
ReverseItems(d, r, n) ==
    IF n > Len(d) \/ Len(r) < 0 THEN r
    ELSE ReverseItems(d, DictSet(r, LowerText(d[n][2]), d[n][1]), n + 1)

\* REVERSE_ABBREVIATIONS = {v.lower(): k for k, v in STANDARD_ABBREVIATIONS.items()}
REVERSE_ABBREVIATIONS == ReverseItems(STANDARD_ABBREVIATIONS, <<>>, 1)

Specialties == {"cardiology", "pulmonology", "neurology"}

SPECIALTY_TERMS ==
    [s \in Specialties |->
        CASE s = "cardiology"  -> SPECIALTY_cardiology
          [] s = "pulmonology" -> SPECIALTY_pulmonology
          [] s = "neurology"   -> SPECIALTY_neurology]

(***************************************************************************)
(* The correction stages. Each loop carries the scanned text, and has the  *)
(* value of one pass computed before the next pass starts.                 *)
(***************************************************************************)
\* the second half of an iteration of normalize_medical_terms' loop:
\* if full_term_lower in REVERSE_ABBREVIATIONS: ...
ReverseStep(reverse, full_term_lower, s) ==
    IF HasKey(reverse, full_term_lower)
    THEN SubScanned(full_term_lower, Get(reverse, full_term_lower), s)
    ELSE s

\* one iteration of normalize_medical_terms' loop: the loop variables are bound to
\* the dictionary's (key, value) in that order, so full_term is the key
NormalizeStep(full_term, abbrev, s) ==
    ReverseStep(REVERSE_ABBREVIATIONS, LowerText(full_term),
                SubScanned(full_term, abbrev, s))

\* for full_term, abbrev in STANDARD_ABBREVIATIONS.items(): ...
RECURSIVE NormalizeFrom(_, _, _)
NormalizeFrom(items, s, n) ==
    IF n > Len(items) \/ Len(s.t) < 0 THEN s
    ELSE NormalizeFrom(items, NormalizeStep(items[n][1], items[n][2], s), n + 1)

normalize_medical_terms(t) == NormalizeFrom(STANDARD_ABBREVIATIONS, Scanned(t), 1).t

\* for pattern, replacement in table.items():
\*     t = re.compile(pattern, re.IGNORECASE).sub(replacement, t)
RECURSIVE SubTableFrom(_, _, _)
SubTableFrom(table, s, n) ==
    IF n > Len(table) \/ Len(s.t) < 0 THEN s
    ELSE SubTableFrom(table, SubScanned(table[n][1], table[n][2], s), n + 1)

correct_common_errors(t) == SubTableFrom(COMMON_ERRORS, Scanned(t), 1).t

normalize_quebec_terms(t) == SubTableFrom(QUEBEC_MEDICAL_TERMS, Scanned(t), 1).t

\* for term, full_term in SPECIALTY_TERMS[specialty].items():
\*     processed = re.compile(full_term, re.IGNORECASE).sub(term, processed)
RECURSIVE SpecialtyFrom(_, _, _)
SpecialtyFrom(table, s, n) ==
    IF n > Len(table) \/ Len(s.t) < 0 THEN s
    ELSE SpecialtyFrom(table, SubScanned(table[n][2], table[n][1], s), n + 1)

\* if specialty and specialty in SPECIALTY_TERMS: ...
SpecialtyIn(terms, t, s) ==
    IF s # None /\ s \in DOMAIN terms
    THEN SpecialtyFrom(terms[s], Scanned(t), 1).t
    ELSE t

\* a stage that takes the cardiology table when the specialty is not a key
CardiologyByDefault(t, s) ==
    SpecialtyIn(SPECIALTY_TERMS, t, IF s \in Specialties THEN s ELSE "cardiology")

apply_specialty_terms(t, s) == SpecialtyIn(SPECIALTY_TERMS, t, s)

\* for variation in data["variations"]: variations[variation] = drug
RECURSIVE VariationsOf(_, _, _, _)
VariationsOf(d, drug, variations, v) ==
    IF v > Len(variations) \/ Len(d) < 0 THEN d
    ELSE VariationsOf(DictSet(d, variations[v], drug), drug, variations, v + 1)

\* for drug, data in MEDICAL_DRUGS.items(): ...
RECURSIVE DrugsLoop(_, _, _)
DrugsLoop(drugs, d, n) ==
    IF n > Len(drugs) \/ Len(d) < 0 THEN d
    ELSE DrugsLoop(drugs, VariationsOf(d, drugs[n][1], drugs[n][2], 1), n + 1)

\* the items of the dictionary get_drug_variations() returns
get_drug_variations == DrugsLoop(MEDICAL_DRUGS, <<>>, 1)

\* a folding that matches the variation anywhere, inside longer words too
DrugSubAnywhere(variation, standard, s) == SubScanned(variation, standard, s)

\* pattern = re.compile(r'\b' + variation + r'\b', re.IGNORECASE)
\* processed = pattern.sub(standard, processed)
DrugSub(variation, standard, s) == SubWordScanned(variation, standard, s)

\* for variation, standard in drug_variations.items(): ...
RECURSIVE DrugsFrom(_, _, _)
DrugsFrom(drug_variations, s, n) ==
    IF n > Len(drug_variations) \/ Len(s.t) < 0 THEN s
    ELSE DrugsFrom(drug_variations,
                   DrugSub(drug_variations[n][1], drug_variations[n][2], s), n + 1)

normalize_drug_variations(t) == DrugsFrom(get_drug_variations, Scanned(t), 1).t

(***************************************************************************)
(* Context-aware numeric patterns                                          *)
(*   word \s+ (?:de|est|etait|a ete) \s+ (\d+) tail                        *)
(* with tail [/\\](\d+), [,.](\d+) or \s*%                                 *)
(***************************************************************************)
Connectors ==
    << <<"d","e">>, <<"e","s","t">>, <<"e'","t","a","i","t">>, <<"a"," ","e'","t","e'">> >>

context_patterns ==
    << [word |-> <<"t","e","n","s","i","o","n">>, tail |-> "slash",
        head |-> <<"t","e","n","s","i","o","n"," ","a","r","t","e'","r","i","e","l","l","e"," ","e","s","t"," ">>],
       [word |-> <<"t","e","m","p","e'","r","a","t","u","r","e">>, tail |-> "decimal",
        head |-> <<"t","e","m","p","e'","r","a","t","u","r","e"," ","e","s","t"," ">>],
       [word |-> <<"s","a","t","u","r","a","t","i","o","n">>, tail |-> "percent",
        head |-> <<"s","a","t","u","r","a","t","i","o","n"," ","e","s","t"," ">>] >>

\* a template that swaps the two numbers
SwappedGroups(pat, g1, g2) ==
    CASE pat.tail = "slash"   -> pat.head \o g2 \o <<"/">> \o g1
      [] pat.tail = "decimal" -> pat.head \o g2 \o <<".">> \o g1
      [] pat.tail = "percent" -> pat.head \o g1 \o <<"%">>

\* the replacement template: r'tension arterielle est \1/\2', r'temperature est \1.\2',
\* r'saturation est \1%', with the groups g1 and g2
ContextReplacement(pat, g1, g2) ==
    CASE pat.tail = "slash"   -> pat.head \o g1 \o <<"/">> \o g2
      [] pat.tail = "decimal" -> pat.head \o g1 \o <<".">> \o g2
      [] pat.tail = "percent" -> pat.head \o g1 \o <<"%">>

\* the rest of a numeric pattern from position d on, where the first group starts
\* d is where the first group starts, e where it ends, and f where the match ends
TailOf(pat, t, d, e, f) ==
    IF e = d THEN NoMatch
    ELSE IF pat.tail = "percent"
    THEN IF f <= Len(t) /\ t[f] = "%"
         THEN [end |-> f + 1, out |-> ContextReplacement(pat, Slice(t, d, e), <<>>)]
         ELSE NoMatch
    ELSE IF /\ e <= Len(t)
            /\ t[e] \in (IF pat.tail = "slash" THEN {"/", "BS"} ELSE {",", "."})
            /\ f > e + 1
         THEN [end |-> f, out |-> ContextReplacement(pat, Slice(t, d, e), Slice(t, e + 1, f))]
         ELSE NoMatch

TailFrom(pat, t, d, e) ==
    TailOf(pat, t, d, e,
           IF pat.tail = "percent" THEN RunEnd(t, e, Spaces) ELSE RunEnd(t, e + 1, Digits))

TailMatch(pat, t, d) == TailFrom(pat, t, d, RunEnd(t, d, Digits))

\* the match that starts at position i with the connector Connectors[k]; b is where
\* the connector starts, c where it ends, and d where the first group starts
ConnectorTail(pat, t, c, d) == IF d = c THEN NoMatch ELSE TailMatch(pat, t, d)

ConnectorFrom(pat, t, c) == ConnectorTail(pat, t, c, RunEnd(t, c, Spaces))

ConnectorMatch(pat, t, lt, b, k) ==
    IF MatchAt(Connectors[k], lt, b)
    THEN ConnectorFrom(pat, t, b + Len(Connectors[k]))
    ELSE NoMatch

\* the alternation (?:de|est|etait|a ete) takes the first connector with which the
\* whole pattern matches
RECURSIVE ConnectorsFrom(_, _, _, _, _)
ConnectorsTry(pat, t, lt, b, k, m) ==
    IF m.end # 0 THEN m ELSE ConnectorsFrom(pat, t, lt, b, k + 1)

ConnectorsFrom(pat, t, lt, b, k) ==
    IF k > Len(Connectors) THEN NoMatch
    ELSE ConnectorsTry(pat, t, lt, b, k, ConnectorMatch(pat, t, lt, b, k))

WordTail(pat, t, lt, a, b) == IF b = a THEN NoMatch ELSE ConnectorsFrom(pat, t, lt, b, 1)

\* the match of the pattern that starts at position i of the text t, whose lower-cased
\* form is lt
ContextMatch(pat, t, lt, i) ==
    IF MatchAt(pat.word, lt, i)
    THEN WordTail(pat, t, lt, i + Len(pat.word), RunEnd(t, i + Len(pat.word), Spaces))
    ELSE NoMatch

SubContextLower(pat, t, lt) ==
    IF \E j \in 1..Len(t) : MatchAt(pat.word, lt, j)
    THEN ReSubFrom(t, [j \in 1..Len(t) |-> ContextMatch(pat, t, lt, j)], 1)
    ELSE t

\* re.sub(pattern, replacement, t, flags=re.IGNORECASE)
SubContext(pat, t) == SubContextLower(pat, t, LowerText(t))

\* for pattern, replacement in context_patterns: ...
RECURSIVE ContextFrom(_, _, _)
ContextFrom(patterns, t, n) ==
    IF n > Len(patterns) \/ Len(t) < 0 THEN t
    ELSE ContextFrom(patterns, SubContext(patterns[n], t), n + 1)

apply_context_patterns(t) == ContextFrom(context_patterns, t, 1)

(***************************************************************************)
(* Spacing and punctuation                                                 *)
(***************************************************************************)
\* a stage that leaves the white space as it is written
SpacesAsWritten(t) == t

\* re.sub(r'\s+', ' ', t)
normalize_spaces(t) ==
    ReSubFrom(t,
              [j \in 1..Len(t) |->
                  IF IsSpace(t[j])
                  THEN [end |-> RunEnd(t, j, Spaces), out |-> <<" ">>]
                  ELSE NoMatch],
              1)

Punctuation == {",", ".", ";", ":", "!", "?"}

\* re.sub(r'\s([,.;:!?])', r'\1', t)
fix_punctuation(t) ==
    ReSubFrom(t,
              [j \in 1..Len(t) |->
                  IF IsSpace(t[j]) /\ j + 1 <= Len(t) /\ t[j + 1] \in Punctuation
                  THEN [end |-> j + 2, out |-> <<t[j + 1]>>]
                  ELSE NoMatch],
              1)

(***************************************************************************)
(* post_process_transcription, with the value of processed after each      *)
(* stage                                                                   *)
(***************************************************************************)
NoStages ==
    [errors |-> <<>>, quebec |-> <<>>, terms |-> <<>>, special |-> <<>>,
     drugs |-> <<>>, context |-> <<>>, spaces |-> <<>>, punct |-> <<>>]

StageErrors(t) == [NoStages EXCEPT !.errors = correct_common_errors(t)]

StageQuebec(r) == [r EXCEPT !.quebec = normalize_quebec_terms(r.errors)]

StageTerms(r) == [r EXCEPT !.terms = normalize_medical_terms(r.quebec)]

StageSpecial(r, s) == [r EXCEPT !.special = apply_specialty_terms(r.terms, s)]

StageDrugs(r) == [r EXCEPT !.drugs = normalize_drug_variations(r.special)]

StageContext(r) == [r EXCEPT !.context = apply_context_patterns(r.drugs)]

StageSpaces(r) == [r EXCEPT !.spaces = normalize_spaces(r.context)]

StagePunct(r) == [r EXCEPT !.punct = fix_punctuation(r.spaces)]

post_process_stages(t, s) ==
    StagePunct(StageSpaces(StageContext(StageDrugs(
        StageSpecial(StageTerms(StageQuebec(StageErrors(t))), s)))))

post_process_transcription(t, s) == post_process_stages(t, s).punct

(***************************************************************************)
(* The correction engine called as a function: the inputs                  *)
(***************************************************************************)
MaxFrags == 2

\* the pieces the input texts are put together from: a COMMON_ERRORS phrase that its
\* correction contains, a letter that lengthens a word, an abbreviation and its full
\* term, two blood-pressure readings, two letters that make an abbreviation with the
\* t that follows, a space, a drug variant, a space before a punctuation mark, a
\* full term of the cardiology table and one of the neurology table, a tab
Fragments ==
  << <<"p","n","e","u","m","o","n","i">>,
     <<"e">>,
     <<"H","T","A">>,
     <<"H","y","p","e","r","t","e","n","s","i","o","n"," ","A","r","t","e'","r","i","e","l","l","e">>,
     <<"t","e","n","s","i","o","n"," ","e","s","t"," ","1","4","0","/","9","0">>,
     <<"T","e","n","s","i","o","n"," ","A"," ","E'","T","E'"," ","1","2","BS","8">>,
     <<"E","T">>,
     <<" ">>,
     <<"P","a","r","a","c","e","t","a","m","o","l">>,
     <<" ",",">>,
     <<"B","l","o","c"," ","d","e"," ","B","r","a","n","c","h","e"," ","G","a","u","c","h","e">>,
     <<"P","o","n","c","t","i","o","n"," ","L","o","m","b","a","i","r","e">>,
     <<"TAB">> >>

RECURSIVE Concat(_, _)
Concat(fs, n) == IF n > Len(fs) THEN <<>> ELSE Fragments[fs[n]] \o Concat(fs, n + 1)

\* every text made of at most MaxFrags pieces
Inputs ==
    {Concat(fs, 1) : fs \in UNION {[1..k -> 1..Len(Fragments)] : k \in 0..MaxFrags}}

\* the specialty arguments: absent, a known one, and an unknown one
SpecialtyArgs == {None, "cardiology", "dermatology"}

(***************************************************************************)
(* The transcription service: POST /transcribe and the background task     *)
(* process_transcription, for one submission                               *)
(***************************************************************************)
\* an Optional[str]: None, or a text
NoText == [some |-> FALSE, text |-> <<>>]

Some(t) == [some |-> TRUE, text |-> t]

\* Python's truth value of an Optional[str]: None and the empty string are false
Truthy(o) == o.some /\ o.text # <<>>

\* ---- the inputs -------------------------------------------------------
MaxChunks == 3

\* file sizes in MB: under the limits, at the 25 MB limit, and over it
FileSizes == {10, 25, 26, 24 * (MaxChunks - 1) + 1}

\* what float() makes of ffprobe's output: a duration in seconds (zero and a
\* negative number are floats as any other), or a ValueError
NoNumber == [number |-> FALSE, seconds |-> 0]

Durations == {[number |-> TRUE, seconds |-> d] : d \in {-60, 0, 60, 600}} \cup {NoNumber}

\* the texts the transcription backend answers with
BackendTexts == {<<>>, <<"a">>, <<"D", "B">>}

Languages == {"fr", "fr-CA", "en", None}

\* the bodies of POST /transcribe: file_id is a required field, that is absent (None),
\* empty or given; file_url is absent, empty or given
Transcribes ==
    [endpoint : {"transcribe"}, file_id : {None, "", "f1"},
     file_url : {None, "", "http://files/f1.wav"},
     language : Languages, specialty : {None, "neurology"}]

\* POST /transcribe-upload with a file and a file_id: main.py 361 calls
\* transcribe_audio_file(temp_file_path), with its defaults "fr" and None
Uploads ==
    {[endpoint |-> "upload", file_id |-> "f1", file_url |-> None,
      language |-> "fr", specialty |-> None]}

Requests == Transcribes \cup Uploads

\* ---- files ------------------------------------------------------------
\* a temporary path: the NamedTemporaryFile's name, the suffix an optimizer adds,
\* and the index of the chunk (-1: not a chunk)
TempFile == [base |-> "tmp.wav", opt |-> "", chunk |-> -1]

\* an optimizer that writes its output to one fixed path
FixedOptimizedPath(audio_path, french) ==
    [base |-> "optimized.wav", opt |-> "", chunk |-> -1]

\* main.py 227 and 263: output_path = f"{audio_path}_optimized.wav" and
\* f"{audio_path}_optimized_french.wav"
OptimizedPath(audio_path, french) ==
    [audio_path EXCEPT !.opt = IF french THEN "_optimized_french.wav" ELSE "_optimized.wav"]

\* main.py 73: chunk_path = f"{audio_path}.chunk{i}.wav"
ChunkPath(audio_path, i) == [audio_path EXCEPT !.chunk = i]

\* an optimizer that gives no usable path when ffmpeg fails
NoFallback(audio_path) == [audio_path EXCEPT !.opt = "_missing"]

\* main.py 243-250 and 309-315: except ...: return audio_path
OptimizerFallback(audio_path) == audio_path

\* language.startswith("fr") on the language codes of Languages
StartsWithFr(language) == language \in {"fr", "fr-CA"}

\* ---- split_audio --------------------------------------------------------
\* math.ceil(a / b) for integers a and b # 0
CeilDiv(a, b) == IF b > 0 THEN -((-a) \div b) ELSE -(a \div (-b))

chunk_size_mb == 24

\* a split that cuts chunks of the 25 MB of main.py 202
NumChunksOfLimit(size, duration) ==
    CeilDiv(duration.seconds * size, 25 * duration.seconds)

\* main.py 66-67: chunk_duration = (chunk_size_mb / file_size) * total_duration,
\* num_chunks = math.ceil(total_duration / chunk_duration), in exact arithmetic:
\* total_duration / chunk_duration = (total_duration * file_size) /
\* (chunk_size_mb * total_duration)
NumChunks(size, duration) ==
    CeilDiv(duration.seconds * size, chunk_size_mb * duration.seconds)

\* the chunks split_audio has written when its ffmpeg call number failAt fails
\* (failAt = 0: none fails), and what it returns
SplitAudio(audio_path, size, duration, failAt) ==
    IF size <= chunk_size_mb
    THEN [chunks |-> <<audio_path>>, written |-> {}]
    ELSE IF ~duration.number \/ duration.seconds = 0
    THEN [chunks |-> <<>>, written |-> {}]        \* ValueError, ZeroDivisionError
    ELSE LET num_chunks == NumChunks(size, duration)
             all == [i \in 1..num_chunks |-> ChunkPath(audio_path, i - 1)]
         IN  IF failAt \in 1..num_chunks
             THEN [chunks |-> <<>>,                 \* CalledProcessError
                   written |-> {all[i] : i \in 1..(failAt - 1)}]
             ELSE [chunks |-> all, written |-> {all[i] : i \in 1..num_chunks}]

\* ---- transcribe_audio_file's loop ---------------------------------------
\* a loop that puts each text in front of the earlier ones
PrependTranscription(ts, t) == IF Truthy(t) THEN <<t.text>> \o ts ELSE ts

\* main.py 208-209: if text: transcriptions.append(text)
AppendTranscription(ts, t) == IF Truthy(t) THEN Append(ts, t.text) ELSE ts

\* " ".join(ts)
RECURSIVE Join(_)
Join(ts) ==
    IF ts = <<>> THEN <<>>
    ELSE IF Len(ts) = 1 THEN ts[1]
    ELSE ts[1] \o <<" ">> \o Join(Tail(ts))

\* main.py 211: return " ".join(transcriptions) if transcriptions else None
JoinTranscriptions(ts) == IF ts # <<>> THEN Some(Join(ts)) ELSE NoText

\* main.py 135: what transcribe_chunk returns for the backend's answer
Corrected == [r \in BackendTexts, s \in {None} \cup Specialties |->
                 post_process_transcription(r, s)]

\* ---- notifications -----------------------------------------------------
DefaultFrontend == "http://localhost:3000"

\* main.py 411-412: os.getenv('FRONTEND_URL', 'http://localhost:3000') and the path
CompletedUrl(FRONTEND_URL) ==
    [base |-> IF FRONTEND_URL = None THEN DefaultFrontend ELSE FRONTEND_URL,
     path |-> "/api/update-transcription-text"]

\* main.py 445
ErrorUrl(FRONTEND_URL) ==
    [base |-> DefaultFrontend, path |-> "/api/update-transcription-text"]

\* a handler in which a failed delivery of the result falls into the error handler
EscalatedCompletedPost(outcome) == IF outcome = "raise" THEN "failed" ELSE "finally"

\* main.py 434-438: whatever requests.post does (an answer of any status, or an
\* exception), the handler goes on to the finally clause
AfterCompletedPost(outcome) == "finally"

\* a handler that queues the submission again after the error is posted
RetryAfterErrorPost(outcome) == "queued"

\* main.py 453-456: except: pass, then raise e
AfterErrorPost(outcome) == "finally_raise"

\* a handler that lets the exception go to the host of the background task
NoOuterExcept(raised) == IF raised THEN "escaped" ELSE "done"

\* main.py 387 and 461-462: try: ... except Exception as e: print(...); the
\* background task is over, whether an exception reached the handler or not
OuterExcept(raised) == "done"

\* the stage names of the submission's life, and the log of the stages entered:
\* entering the stage one is in adds nothing
Enter(log, name) ==
    IF log # <<>> /\ log[Len(log)] = name THEN log ELSE Append(log, name)

\* main.py 126-135, in transcribe_chunk: the backend is called, and when it answered,
\* the answer is corrected
EnterChunk(log, answered) ==
    IF answered THEN Enter(Enter(log, "transcribing"), "correcting")
    ELSE Enter(log, "transcribing")

\* the endpoint has not answered yet
NoResponse == [status |-> 0, detail |-> ""]

\* ---- the state ---------------------------------------------------------
PipelineIdle ==
    /\ response = NoResponse
    /\ queued = 0
    /\ files = {}
    /\ downloads = 0
    /\ optimized_audio = TempFile
    /\ file_size = 0
    /\ total_duration = NoNumber
    /\ chunks = <<>>
    /\ results = <<>>
    /\ transcriptions = <<>>
    /\ transcription_text = NoText
    /\ notifications = <<>>
    /\ terminal = <<>>
    /\ stages = <<>>

TextIdle ==
    /\ text = <<>>
    /\ specialty = None
    /\ calls = {}
    /\ stage = NoStages
    /\ processed = <<>>
    /\ again = <<>>
    /\ normalized = <<>>

textVars == <<text, specialty, calls, stage, processed, again, normalized>>

\* what the backend gave when it has not been called
NoCompletion == [raised |-> FALSE, content |-> <<>>]

NotesIdle ==
    /\ note_pc = "idle"
    /\ transcription = <<>>
    /\ completions = 0
    /\ completion = NoCompletion
    /\ structured_note = NoText
    /\ note_response = NoResponse

notesVars ==
    <<note_pc, transcription, completions, completion, structured_note, note_response>>

TasksIdle ==
    /\ task = <<>>
    /\ disk = {}

tasksVars == <<task, disk>>

pipelineVars ==
    <<pc, request, env, response, queued, files, downloads, optimized_audio, file_size,
      total_duration, chunks, results, transcriptions, transcription_text,
      notifications, terminal, stages>>

Init ==
    /\ request \in Requests
    /\ env \in {None, "https://notes.example"}
    /\ pc = "request"
    /\ PipelineIdle
    /\ TextIdle
    /\ NotesIdle
    /\ TasksIdle

\* POST /transcribe (main.py 321-346). A body without the required field file_id
\* (main.py 39) does not reach the function: the framework answers 422.
transcribe_audio ==
    /\ pc = "request"
    /\ request.endpoint = "transcribe"
    /\ IF request.file_id = None
       THEN /\ response' = [status |-> 422, detail |-> "field required"]
            /\ pc' = "rejected"
            /\ UNCHANGED <<queued, stages>>
       ELSE IF request.file_id = ""
       THEN /\ response' = [status |-> 400, detail |-> "file_id is required"]
            /\ pc' = "rejected"
            /\ UNCHANGED <<queued, stages>>
       ELSE IF request.file_url \in {None, ""}
       THEN /\ response' = [status |-> 400, detail |-> "file_url is required"]
            /\ pc' = "rejected"
            /\ UNCHANGED <<queued, stages>>
       ELSE /\ queued' = queued + 1
            /\ response' = [status |-> 200, detail |-> "processing"]
            /\ pc' = "queued"
            /\ stages' = Enter(stages, "received")
    /\ UNCHANGED <<request, env, files, downloads, optimized_audio, file_size,
                   total_duration, chunks, results, transcriptions,
                   transcription_text, notifications, terminal, textVars, notesVars, tasksVars>>

\* POST /transcribe-upload, main.py 354-358: the upload is written to a temporary
\* file; an exception of file.read() or temp_file.write() is caught at 374
SaveUpload ==
    /\ pc = "request"
    /\ request.endpoint = "upload"
    /\ files' = files \cup {TempFile}
    /\ \E ok \in BOOLEAN :
          IF ok
          THEN /\ pc' = "optimize"
               /\ stages' = Enter(stages, "received")
               /\ UNCHANGED <<response, terminal>>
          ELSE /\ pc' = "answered"
               /\ response' = [status |-> 500, detail |-> "error"]
               /\ terminal' = Append(terminal, "error")
               /\ stages' = Enter(Enter(stages, "received"), "error")
    /\ UNCHANGED <<request, env, queued, downloads, optimized_audio, file_size,
                   total_duration, chunks, results, transcriptions,
                   transcription_text, notifications, textVars, notesVars, tasksVars>>

\* process_transcription, main.py 387-396: the temporary file is created and the
\* download is written to it; an exception of requests.get is caught at 461
Download ==
    /\ pc = "queued"
    /\ files' = files \cup {TempFile}
    /\ downloads' = downloads + 1
    /\ \E ok \in BOOLEAN :
          IF ok
          THEN /\ pc' = "optimize"
               /\ stages' = Enter(stages, "downloading")
               /\ UNCHANGED terminal
          ELSE /\ pc' = OuterExcept(TRUE)
               /\ stages' = Enter(Enter(stages, "downloading"), "error")
               /\ terminal' = Append(terminal, "error")
    /\ UNCHANGED <<request, env, response, queued, optimized_audio, file_size,
                   total_duration, chunks, results, transcriptions,
                   transcription_text, notifications, textVars, notesVars, tasksVars>>

\* transcribe_audio_file, main.py 194-202: the optimizer writes its output file and
\* returns its path, or fails and returns the path it was given; the size of the
\* file it returned is read. A language of None has no startswith, a path without a
\* file has no size: the exception is caught at 213
Optimize ==
    /\ pc = "optimize"
    /\ stages' = Enter(stages, "preparing")
    /\ IF request.language = None
       THEN /\ transcription_text' = NoText
            /\ pc' = "returned"
            /\ UNCHANGED <<files, optimized_audio, file_size>>
       ELSE /\ \E ok \in BOOLEAN :
                  LET out == OptimizedPath(TempFile, StartsWithFr(request.language))
                  IN  IF ok
                      THEN files' = files \cup {out} /\ optimized_audio' = out
                      ELSE UNCHANGED files /\ optimized_audio' = OptimizerFallback(TempFile)
            /\ IF optimized_audio' \in files'
               THEN /\ file_size' \in FileSizes
                    /\ pc' = "split"
                    /\ UNCHANGED transcription_text
               ELSE /\ transcription_text' = NoText
                    /\ pc' = "returned"
                    /\ UNCHANGED file_size
    /\ UNCHANGED <<request, env, response, queued, downloads, total_duration, chunks,
                   results, transcriptions, notifications, terminal, textVars, notesVars, tasksVars>>

\* main.py 202: chunks = split_audio(optimized_audio) if the file is larger than
\* 25 MB else [optimized_audio]
Split ==
    /\ pc = "split"
    /\ IF file_size > 25
       THEN \E d \in Durations, failAt \in 0..MaxChunks :
               LET r == SplitAudio(optimized_audio, file_size, d, failAt)
               IN  /\ total_duration' = d
                   /\ chunks' = r.chunks
                   /\ files' = files \cup r.written
       ELSE /\ chunks' = <<optimized_audio>>
            /\ UNCHANGED <<total_duration, files>>
    /\ transcriptions' = <<>>
    /\ results' = <<>>
    /\ pc' = "chunks"
    /\ UNCHANGED <<request, env, response, queued, downloads, optimized_audio,
                   file_size, transcription_text, notifications, terminal, stages,
                   textVars, notesVars, tasksVars>>

\* main.py 205-209, one iteration: text = await transcribe_chunk(chunk, ...), which
\* is None when anything fails (main.py 136-138) and the corrected answer of the
\* backend otherwise
TranscribeChunk ==
    /\ pc = "chunks"
    /\ Len(results) < Len(chunks)
    /\ \E t \in {NoText} \cup {Some(Corrected[r, request.specialty]) : r \in BackendTexts} :
          /\ results' = Append(results, t)
          /\ transcriptions' = AppendTranscription(transcriptions, t)
          /\ stages' = EnterChunk(stages, t.some)
    /\ UNCHANGED <<pc, request, env, response, queued, files, downloads,
                   optimized_audio, file_size, total_duration, chunks,
                   transcription_text, notifications, terminal, textVars, notesVars, tasksVars>>

\* main.py 211: the loop is over
ReturnTranscription ==
    /\ pc = "chunks"
    /\ Len(results) = Len(chunks)
    /\ transcription_text' = JoinTranscriptions(transcriptions)
    /\ pc' = "returned"
    /\ UNCHANGED <<request, env, response, queued, files, downloads, optimized_audio,
                   file_size, total_duration, chunks, results, transcriptions,
                   notifications, terminal, stages, textVars, notesVars, tasksVars>>

\* main.py 402-406: if not transcription_text: raise Exception(...), caught at 440
CheckTranscription ==
    /\ pc = "returned"
    /\ request.endpoint = "transcribe"
    /\ IF Truthy(transcription_text)
       THEN /\ pc' = "completed"
            /\ terminal' = Append(terminal, "completed")
            /\ stages' = Enter(stages, "completed")
       ELSE /\ pc' = "failed"
            /\ terminal' = Append(terminal, "error")
            /\ stages' = Enter(stages, "error")
    /\ UNCHANGED <<request, env, response, queued, files, downloads, optimized_audio,
                   file_size, total_duration, chunks, results, transcriptions,
                   transcription_text, notifications, textVars, notesVars, tasksVars>>

\* main.py 363-375: the temporary file is unlinked, and the text is the answer;
\* without a text the HTTPException of 367 is caught at 374 and raised again as a 500
AnswerUpload ==
    /\ pc = "returned"
    /\ request.endpoint = "upload"
    /\ files' = files \ {TempFile}
    /\ IF Truthy(transcription_text)
       THEN /\ response' = [status |-> 200, detail |-> "completed",
                            file_id |-> request.file_id,
                            transcription_text |-> transcription_text.text]
            /\ terminal' = Append(terminal, "completed")
            /\ stages' = Enter(stages, "completed")
       ELSE /\ response' = [status |-> 500, detail |-> "error"]
            /\ terminal' = Append(terminal, "error")
            /\ stages' = Enter(stages, "error")
    /\ pc' = "answered"
    /\ UNCHANGED <<request, env, queued, downloads, optimized_audio, file_size,
                   total_duration, chunks, results, transcriptions,
                   transcription_text, notifications, textVars, notesVars, tasksVars>>

\* main.py 409-438: the result is posted to the frontend
NotifyCompleted ==
    /\ pc = "completed"
    /\ \E outcome \in {"200", "500", "raise"} :
          /\ notifications' = Append(notifications,
                [file_id |-> request.file_id, status |-> "completed",
                 transcription_text |-> transcription_text,
                 url |-> CompletedUrl(env), outcome |-> outcome])
          /\ pc' = AfterCompletedPost(outcome)
          /\ terminal' = IF pc' = "failed" THEN Append(terminal, "error") ELSE terminal
    /\ UNCHANGED <<request, env, response, queued, files, downloads, optimized_audio,
                   file_size, total_duration, chunks, results, transcriptions,
                   transcription_text, stages, textVars, notesVars, tasksVars>>

\* main.py 440-456: the error status is posted, and the exception raised again
NotifyError ==
    /\ pc = "failed"
    /\ \E outcome \in {"200", "500", "raise"} :
          /\ notifications' = Append(notifications,
                [file_id |-> request.file_id, status |-> "error",
                 transcription_text |-> NoText,
                 url |-> ErrorUrl(env), outcome |-> outcome])
          /\ pc' = AfterErrorPost(outcome)
    /\ UNCHANGED <<request, env, response, queued, files, downloads, optimized_audio,
                   file_size, total_duration, chunks, results, transcriptions,
                   transcription_text, terminal, stages, textVars, notesVars, tasksVars>>

\* main.py 457-462: the finally clause unlinks temp_file_path, and the exception
\* raised again at 456 is caught at 461
Finally ==
    /\ pc \in {"finally", "finally_raise"}
    /\ files' = files \ {TempFile}
    /\ pc' = OuterExcept(pc = "finally_raise")
    /\ UNCHANGED <<request, env, response, queued, downloads, optimized_audio,
                   file_size, total_duration, chunks, results, transcriptions,
                   transcription_text, notifications, terminal, stages, textVars, notesVars, tasksVars>>

Next ==
    \/ transcribe_audio
    \/ SaveUpload
    \/ Download
    \/ Optimize
    \/ Split
    \/ TranscribeChunk
    \/ ReturnTranscription
    \/ CheckTranscription
    \/ AnswerUpload
    \/ NotifyCompleted
    \/ NotifyError
    \/ Finally

vars == <<pipelineVars, textVars, notesVars, tasksVars>>

Spec == Init /\ [][Next]_vars

\* every step of the service that can be taken is taken in the end: the event loop
\* runs the handler and the background task to their end
FairSpec == Spec /\ WF_vars(Next)

(***************************************************************************)
(* The correction engine called as a function: the calls                   *)
(***************************************************************************)
TextInit ==
    /\ text \in Inputs
    /\ specialty \in SpecialtyArgs
    /\ calls = {}
    /\ stage = NoStages
    /\ processed = <<>>
    /\ again = <<>>
    /\ normalized = <<>>
    /\ pc = "text"
    /\ request = [endpoint |-> "text", file_id |-> "", file_url |-> None, language |-> None, specialty |-> None]
    /\ env = None
    /\ PipelineIdle
    /\ NotesIdle
    /\ TasksIdle

\* processed = post_process_transcription(text, specialty)
CallPostProcess ==
    /\ "post_process" \notin calls
    /\ calls' = calls \cup {"post_process"}
    /\ stage' = post_process_stages(text, specialty)
    /\ processed' = stage'.punct
    /\ UNCHANGED <<text, specialty, again, normalized, pipelineVars, notesVars, tasksVars>>

\* again = post_process_transcription(processed, specialty)
CallPostProcessAgain ==
    /\ "post_process" \in calls
    /\ "again" \notin calls
    /\ calls' = calls \cup {"again"}
    /\ again' = post_process_transcription(processed, specialty)
    /\ UNCHANGED <<text, specialty, stage, processed, normalized, pipelineVars, notesVars, tasksVars>>

\* normalized = normalize_medical_terms(text)
CallNormalize ==
    /\ "again" \in calls
    /\ "normalize" \notin calls
    /\ calls' = calls \cup {"normalize"}
    /\ normalized' = normalize_medical_terms(text)
    /\ UNCHANGED <<text, specialty, stage, processed, again, pipelineVars, notesVars, tasksVars>>

TextNext == CallPostProcess \/ CallPostProcessAgain \/ CallNormalize

SpecText == TextInit /\ [][TextNext]_vars


(***************************************************************************)
(* The structured notes service: POST /structure-note, for one request     *)
(***************************************************************************)
\* main.py 157: the fallback message
Sentinel ==
    <<"E","r","r","o","r"," ","g","e","n","e","r","a","t","i","n","g"," ",
      "s","t","r","u","c","t","u","r","e","d"," ","n","o","t","e">>

\* what openai_client.chat.completions.create gives for the request: an exception,
\* or a message whose content is empty, a note, or the transcription once more
Completions(t) ==
    {[raised |-> TRUE, content |-> <<>>]} \cup
    {[raised |-> FALSE, content |-> c] :
        c \in {<<>>, <<"N","o","t","e"," ","d","'","u","r","g","e","n","c","e"," ",":">>, t}}

\* a function that calls the backend again when the call failed
RetryCompletion(outcome) == IF outcome.raised THEN "generating" ELSE "generated"

\* main.py 146-157: return response.choices[0].message.content, or in the except
\* clause return the fallback message: the function is over in both cases
AfterCompletion(outcome) == "generated"

\* main.py 155-157: what generate_structured_note returns
NoteOf(outcome) == IF outcome.raised THEN Some(Sentinel) ELSE Some(outcome.content)

NotesInit ==
    /\ note_pc = "request"
    /\ transcription \in Inputs
    /\ completions = 0
    /\ completion = NoCompletion
    /\ structured_note = NoText
    /\ note_response = NoResponse
    /\ pc = "notes"
    /\ request = [endpoint |-> "structure-note", file_id |-> "", file_url |-> None,
                  language |-> None, specialty |-> None]
    /\ env = None
    /\ PipelineIdle
    /\ TextIdle
    /\ TasksIdle

\* POST /structure-note (main.py 159-162): generate_structured_note is called with
\* the request's transcription_text
structure_note ==
    /\ note_pc = "request"
    /\ note_pc' = "generating"
    /\ UNCHANGED <<transcription, completions, completion, structured_note,
                   note_response, pipelineVars, textVars, tasksVars>>

\* generate_structured_note (main.py 146-157): the backend is called
generate_structured_note ==
    /\ note_pc = "generating"
    /\ completions' = completions + 1
    /\ \E outcome \in Completions(transcription) :
          /\ completion' = outcome
          /\ structured_note' = NoteOf(outcome)
          /\ note_pc' = AfterCompletion(outcome)
    /\ UNCHANGED <<transcription, note_response, pipelineVars, textVars, tasksVars>>

\* main.py 163: return {"structured_note": structured_note_content}
AnswerNote ==
    /\ note_pc = "generated"
    /\ note_response' = [status |-> 200, structured_note |-> structured_note.text]
    /\ note_pc' = "answered"
    /\ UNCHANGED <<transcription, completions, completion, structured_note,
                   pipelineVars, textVars, tasksVars>>

NotesNext == structure_note \/ generate_structured_note \/ AnswerNote

SpecNotes == NotesInit /\ [][NotesNext]_vars

(***************************************************************************)
(* Two submissions in flight at the same time: two process_transcription   *)
(* tasks on one file system, their steps interleaved in every order        *)
(***************************************************************************)
Tasks == {1, 2}

\* main.py 391-392: each task's NamedTemporaryFile has a name of its own
TempFileOf(i) ==
    [TempFile EXCEPT !.base = CASE i = 1 -> "tmp1.wav" [] i = 2 -> "tmp2.wav"]

\* the inputs of the two tasks: a file that is not split, and one that is cut in two
TaskSizes == {10, 26}

TaskDurations == {NoNumber, [number |-> TRUE, seconds |-> 60]}

TaskTexts == {<<"a">>}

TaskOutcomes == {"200", "raise"}

\* the task i when it is queued
QueuedTask(i, language) ==
    [pc |-> "queued", file_id |-> CASE i = 1 -> "f1" [] i = 2 -> "f2",
     language |-> language, downloaded |-> FALSE, optimized_audio |-> TempFileOf(i),
     file_size |-> 0, chunks |-> <<>>, results |-> <<>>, transcriptions |-> <<>>,
     transcription_text |-> NoText, notifications |-> <<>>, terminal |-> <<>>,
     touched |-> {}, missing |-> FALSE]

TasksInit ==
    /\ task \in {<<QueuedTask(1, l1), QueuedTask(2, l2)>> : l1, l2 \in {"fr", "en"}}
    /\ disk = {}
    /\ pc = "tasks"
    /\ request = [endpoint |-> "transcribe", file_id |-> "", file_url |-> None,
                  language |-> None, specialty |-> None]
    /\ env = None
    /\ PipelineIdle
    /\ TextIdle
    /\ NotesIdle

\* main.py 387-396, by the task i
TaskDownload(i) ==
    /\ task[i].pc = "queued"
    /\ disk' = disk \cup {TempFileOf(i)}
    /\ \E ok \in BOOLEAN :
          task' = [task EXCEPT ![i] =
                     [@ EXCEPT !.downloaded = ok,
                               !.touched = @ \cup {TempFileOf(i)},
                               !.pc = IF ok THEN "optimize" ELSE OuterExcept(TRUE),
                               !.terminal = IF ok THEN @ ELSE Append(@, "error")]]
    /\ UNCHANGED <<pipelineVars, textVars, notesVars>>

\* the task i with the optimizer's result: the path it returned, whether ffmpeg
\* wrote its output file, and whether the path returned has a size
Optimized(t, path, wrote, size, there, unread) ==
    [t EXCEPT !.optimized_audio = path,
              !.touched = @ \cup {path} \cup wrote,
              !.missing = @ \/ unread \/ ~there,
              !.file_size = IF there THEN size ELSE @,
              !.pc = IF there THEN "split" ELSE "returned"]

\* main.py 194-202, by the task i: ffmpeg reads the task's file and writes the
\* output path, and the size of the path the optimizer returned is read
TaskOptimize(i) ==
    /\ task[i].pc = "optimize"
    /\ \E ok \in BOOLEAN, size \in TaskSizes :
          IF ok /\ TempFileOf(i) \in disk
          THEN /\ disk' = disk \cup
                      {OptimizedPath(TempFileOf(i), StartsWithFr(task[i].language))}
               /\ task' = [task EXCEPT ![i] =
                     Optimized(@, OptimizedPath(TempFileOf(i),
                                                StartsWithFr(task[i].language)),
                               {TempFileOf(i)}, size, TRUE, FALSE)]
          ELSE /\ UNCHANGED disk
               /\ task' = [task EXCEPT ![i] =
                     Optimized(@, OptimizerFallback(TempFileOf(i)), {TempFileOf(i)},
                               size, OptimizerFallback(TempFileOf(i)) \in disk,
                               TempFileOf(i) \notin disk)]
    /\ UNCHANGED <<pipelineVars, textVars, notesVars>>

\* the task i with what split_audio returned
Splitted(t, r, read) ==
    [t EXCEPT !.chunks = r.chunks,
              !.touched = @ \cup r.written \cup read,
              !.results = <<>>,
              !.transcriptions = <<>>,
              !.pc = "chunks"]

\* main.py 202, by the task i: ffprobe gives no duration for a file that is not there
TaskSplit(i) ==
    /\ task[i].pc = "split"
    /\ IF task[i].file_size > 25
       THEN \E d \in TaskDurations, failAt \in 0..2 :
               /\ disk' = disk \cup
                     SplitAudio(task[i].optimized_audio, task[i].file_size,
                                IF task[i].optimized_audio \in disk THEN d ELSE NoNumber,
                                failAt).written
               /\ task' = [task EXCEPT ![i] =
                     Splitted(@, SplitAudio(task[i].optimized_audio, task[i].file_size,
                                            IF task[i].optimized_audio \in disk
                                            THEN d ELSE NoNumber, failAt),
                              {task[i].optimized_audio})]
       ELSE /\ UNCHANGED disk
            /\ task' = [task EXCEPT ![i] =
                  Splitted(@, [chunks |-> <<task[i].optimized_audio>>, written |-> {}],
                           {})]
    /\ UNCHANGED <<pipelineVars, textVars, notesVars>>

\* the task i after transcribe_chunk on the chunk: nothing comes of a chunk whose
\* file is not there (open, main.py 116)
Transcribed(t, chunk, got, there) ==
    [t EXCEPT !.results = Append(@, IF there THEN got ELSE NoText),
              !.transcriptions = AppendTranscription(@, IF there THEN got ELSE NoText),
              !.touched = @ \cup {chunk},
              !.missing = @ \/ ~there]

\* main.py 205-209, one iteration by the task i
TaskTranscribeChunk(i) ==
    /\ task[i].pc = "chunks"
    /\ Len(task[i].results) < Len(task[i].chunks)
    /\ \E got \in {NoText} \cup {Some(Corrected[r, None]) : r \in TaskTexts} :
          task' = [task EXCEPT ![i] =
                     Transcribed(@, task[i].chunks[Len(task[i].results) + 1], got,
                                 task[i].chunks[Len(task[i].results) + 1] \in disk)]
    /\ UNCHANGED <<disk, pipelineVars, textVars, notesVars>>

\* main.py 211, by the task i
TaskReturnTranscription(i) ==
    /\ task[i].pc = "chunks"
    /\ Len(task[i].results) = Len(task[i].chunks)
    /\ task' = [task EXCEPT ![i] =
                  [@ EXCEPT !.transcription_text = JoinTranscriptions(task[i].transcriptions),
                            !.pc = "returned"]]
    /\ UNCHANGED <<disk, pipelineVars, textVars, notesVars>>

\* main.py 402-406, by the task i
TaskCheckTranscription(i) ==
    /\ task[i].pc = "returned"
    /\ task' = [task EXCEPT ![i] =
                  IF Truthy(@.transcription_text)
                  THEN [@ EXCEPT !.pc = "completed", !.terminal = Append(@, "completed")]
                  ELSE [@ EXCEPT !.pc = "failed", !.terminal = Append(@, "error")]]
    /\ UNCHANGED <<disk, pipelineVars, textVars, notesVars>>

\* main.py 409-438, by the task i
TaskNotifyCompleted(i) ==
    /\ task[i].pc = "completed"
    /\ \E outcome \in TaskOutcomes :
          task' = [task EXCEPT ![i] =
                     [@ EXCEPT !.notifications = Append(@,
                                   [file_id |-> task[i].file_id, status |-> "completed",
                                    transcription_text |-> task[i].transcription_text,
                                    url |-> CompletedUrl(env), outcome |-> outcome]),
                               !.pc = AfterCompletedPost(outcome)]]
    /\ UNCHANGED <<disk, pipelineVars, textVars, notesVars>>

\* main.py 440-456, by the task i
TaskNotifyError(i) ==
    /\ task[i].pc = "failed"
    /\ \E outcome \in TaskOutcomes :
          task' = [task EXCEPT ![i] =
                     [@ EXCEPT !.notifications = Append(@,
                                   [file_id |-> task[i].file_id, status |-> "error",
                                    transcription_text |-> NoText,
                                    url |-> ErrorUrl(env), outcome |-> outcome]),
                               !.pc = AfterErrorPost(outcome)]]
    /\ UNCHANGED <<disk, pipelineVars, textVars, notesVars>>

\* main.py 457-462, by the task i
TaskFinally(i) ==
    /\ task[i].pc \in {"finally", "finally_raise"}
    /\ disk' = disk \ {TempFileOf(i)}
    /\ task' = [task EXCEPT ![i] =
                  [@ EXCEPT !.touched = @ \cup {TempFileOf(i)},
                            !.pc = OuterExcept(task[i].pc = "finally_raise")]]
    /\ UNCHANGED <<pipelineVars, textVars, notesVars>>

TasksNext ==
    \E i \in Tasks :
        \/ TaskDownload(i)
        \/ TaskOptimize(i)
        \/ TaskSplit(i)
        \/ TaskTranscribeChunk(i)
        \/ TaskReturnTranscription(i)
        \/ TaskCheckTranscription(i)
        \/ TaskNotifyCompleted(i)
        \/ TaskNotifyError(i)
        \/ TaskFinally(i)

SpecTasks == TasksInit /\ [][TasksNext]_vars
(***************************************************************************)
(* Properties                                                              *)
(***************************************************************************)
\* the text p occurs in the text t
Contains(t, p) == \E i \in 1..(Len(t) - Len(p) + 1) : SubSeq(t, i, i + Len(p) - 1) = p

\* the text p occurs in the text t when letter case is ignored
ContainsIC(t, p) == Contains(LowerText(t), LowerText(p))

\* C1: a submission enters exactly one terminal state, and at most one notification
\* is posted for its file_id, whatever the download, the optimizer, the split, the
\* chunks and the delivery of the notification do: a 'completed' and an 'error'
\* notification are never both sent, also when posting 'completed' itself fails.
OneTerminalStateOneNotification ==
    /\ Len(terminal) <= 1
    /\ pc = "done" => Len(terminal) = 1
    /\ Len(notifications) <= 1
    /\ \A n \in 1..Len(notifications) : notifications[n].file_id = request.file_id
    /\ ~(\E n, m \in 1..Len(notifications) :
            notifications[n].status = "completed" /\ notifications[m].status = "error")

\* the submission is over, it completed, and the post of 'completed' raised
CompletedDeliveryFailed ==
    /\ pc = "done"
    /\ terminal = <<"completed">>
    /\ Len(notifications) = 1
    /\ notifications[1].status = "completed"
    /\ notifications[1].outcome = "raise"

\* C2: a submission that ends in the error state, whichever stage failed, has had
\* exactly one notification posted, with its file_id, the status 'error' and no
\* transcription_text.
ErrorIsNotifiedOnce ==
    (pc = "done" /\ terminal = <<"error">>) =>
        /\ Len(notifications) = 1
        /\ notifications[1].file_id = request.file_id
        /\ notifications[1].status = "error"
        /\ ~notifications[1].transcription_text.some

\* C3: when the processing of a submission is over, on every exit path, none of the
\* temporary files it created exists any more: not the download, not the optimized
\* file, not a chunk file.
TemporaryFilesDeleted == pc = "done" => files = {}

\* C4: transcribe_audio_file calls transcribe_chunk on every chunk, and returns None
\* if and only if every one of these calls failed (returned None).
NoneIffEveryChunkFailed ==
    (pc = "returned" /\ request.language # None) =>
        /\ Len(results) = Len(chunks)
        /\ ~transcription_text.some <=> \A k \in 1..Len(results) : ~results[k].some

\* the texts that transcribe_chunk returned, in the order of the chunks
TextsOf(rs) ==
    [k \in 1..Cardinality({j \in 1..Len(rs) : rs[j].some /\ rs[j].text # <<>>}) |->
        rs[CHOOSE j \in 1..Len(rs) :
              /\ rs[j].some /\ rs[j].text # <<>>
              /\ Cardinality({i \in 1..j : rs[i].some /\ rs[i].text # <<>>}) = k].text]

\* the texts ts one after the other, with one space between two of them
RECURSIVE SpaceJoined(_)
SpaceJoined(ts) ==
    IF Len(ts) = 0 THEN <<>>
    ELSE IF Len(ts) = 1 THEN ts[1]
    ELSE SpaceJoined(SubSeq(ts, 1, Len(ts) - 1)) \o <<" ">> \o ts[Len(ts)]

\* C5: the chunks are in the order split_audio cut them (chunk i starts at
\* i * chunk_duration), and what transcribe_audio_file returns is the corrected texts
\* of the chunks that gave a text, in that order, with one space between two of them
\* (None when no chunk gave a text).
TranscriptJoinsChunksInOrder ==
    (pc = "returned" /\ request.language # None) =>
        /\ \A i \in 1..Len(chunks) : chunks[i].chunk \in {-1, i - 1}
        /\ transcription_text =
              IF Len(TextsOf(results)) = 0 THEN NoText
              ELSE Some(SpaceJoined(TextsOf(results)))

\* three chunks, of which the second failed and the other two gave different texts
ThreeChunksOneFailed ==
    /\ pc = "returned"
    /\ Len(chunks) = 3
    /\ Len(results) = 3
    /\ Truthy(results[1])
    /\ ~results[2].some
    /\ Truthy(results[3])
    /\ results[1] # results[3]
    /\ transcription_text.some

\* C6: post_process_transcription is idempotent for a fixed specialty.
PostProcessIdempotent == "again" \in calls => again = processed

\* C7: for every entry of COMMON_ERRORS whose error phrase the text contains in any
\* letter case, post_process_transcription's output contains the correction and does
\* not contain the error phrase in any letter case.
CommonErrorsCorrected ==
    "post_process" \in calls =>
        \A n \in 1..Len(COMMON_ERRORS) :
            ContainsIC(text, COMMON_ERRORS[n][1]) =>
                /\ Contains(processed, COMMON_ERRORS[n][2])
                /\ ~ContainsIC(processed, COMMON_ERRORS[n][1])

\* C8: normalize_medical_terms folds full terms to abbreviations: for every pair of
\* STANDARD_ABBREVIATIONS whose full term the text contains in any letter case, the
\* output has the abbreviation and no longer the full term, and a text that is an
\* abbreviation is left as it is.
FullTermsAbbreviated ==
    "normalize" \in calls =>
        \A n \in 1..Len(STANDARD_ABBREVIATIONS) :
            /\ ContainsIC(text, STANDARD_ABBREVIATIONS[n][2]) =>
                  /\ Contains(normalized, STANDARD_ABBREVIATIONS[n][1])
                  /\ ~ContainsIC(normalized, STANDARD_ABBREVIATIONS[n][2])
            /\ text = STANDARD_ABBREVIATIONS[n][1] => normalized = text

\* A blood-pressure reading 'tension <de|est|etait|a ete> N<sep>M' that starts at
\* position i of the text t, in any letter case: the word, white space, a connector,
\* white space, the digits N, a separator of seps, the digits M.
ReadingAt(t, i, seps) ==
    LET lt == LowerText(t)
        b  == RunEnd(t, i + 7, Spaces)
        ks == {k \in 1..Len(Connectors) : MatchAt(Connectors[k], lt, b)}
        c  == b + Len(Connectors[CHOOSE k \in ks : TRUE])
        d  == RunEnd(t, c, Spaces)
        e  == RunEnd(t, d, Digits)
        f  == RunEnd(t, e + 1, Digits)
    IN  IF /\ MatchAt(<<"t","e","n","s","i","o","n">>, lt, i)
           /\ b > i + 7
           /\ ks # {}
           /\ d > c
           /\ e > d
           /\ e <= Len(t)
           /\ t[e] \in seps
           /\ f > e + 1
        THEN [ok |-> TRUE, n |-> Slice(t, d, e), m |-> Slice(t, e + 1, f)]
        ELSE [ok |-> FALSE, n |-> <<>>, m |-> <<>>]

\* 'tension arterielle est N/M'
Canonical(n, m) ==
    <<"t","e","n","s","i","o","n"," ","a","r","t","e'","r","i","e","l","l","e"," ","e","s","t"," ">>
        \o n \o <<"/">> \o m

\* the reading is the start of the text or follows a character that is no letter
AfterNoLetter(t, i) == i = 1 \/ t[i - 1] \notin Letters

\* C9, as the specification states it: whenever the text contains a reading
\* 'tension <de|est|etait|a ete> N/M', the output of post_process_transcription
\* contains 'tension arterielle est N/M' with the same N and M.
EveryReadingCanonical ==
    "post_process" \in calls =>
        \A i \in 1..Len(text) :
            ReadingAt(text, i, {"/"}).ok =>
                Contains(processed, Canonical(ReadingAt(text, i, {"/"}).n,
                                              ReadingAt(text, i, {"/"}).m))

\* C9, as the code has it: a reading 'tension <de|est|etait|a ete> N/M' or N\M that
\* starts the text or follows a character that is no letter comes out as
\* 'tension arterielle est N/M' with the same N and M in the same order.
ReadingAfterNoLetterCanonical ==
    "post_process" \in calls =>
        \A i \in 1..Len(text) :
            (AfterNoLetter(text, i) /\ ReadingAt(text, i, {"/", "BS"}).ok) =>
                Contains(processed, Canonical(ReadingAt(text, i, {"/", "BS"}).n,
                                              ReadingAt(text, i, {"/", "BS"}).m))

\* a reading with two different numbers in the middle of a text, after a character
\* that is no letter, has come out in the canonical form
ReadingInsideCanonicalized ==
    /\ "post_process" \in calls
    /\ \E i \in 2..Len(text) :
          /\ AfterNoLetter(text, i)
          /\ ReadingAt(text, i, {"/", "BS"}).ok
          /\ ReadingAt(text, i, {"/", "BS"}).n # ReadingAt(text, i, {"/", "BS"}).m
          /\ Contains(processed, Canonical(ReadingAt(text, i, {"/", "BS"}).n,
                                           ReadingAt(text, i, {"/", "BS"}).m))

\* the canonical name of the drug of which the word w is a variation in some letter
\* case, and w itself when it is no variation
CanonicalDrug(w) ==
    LET owners == {n \in 1..Len(MEDICAL_DRUGS) :
                      \E v \in 1..Len(MEDICAL_DRUGS[n][2]) :
                          MEDICAL_DRUGS[n][2][v] = LowerText(w)}
    IN  IF owners = {} THEN w ELSE MEDICAL_DRUGS[CHOOSE n \in owners : TRUE][1]

\* the text t with every whole word (longest run of word characters) that is a
\* variation replaced by the canonical name, and everything else as it is
RECURSIVE WordFoldFrom(_, _)
WordFoldFrom(t, i) ==
    IF i > Len(t) THEN <<>>
    ELSE IF t[i] \notin WordChars
    THEN LET e == RunEnd(t, i, {t[k] : k \in i..Len(t)} \ WordChars)
         IN  Slice(t, i, e) \o WordFoldFrom(t, e)
    ELSE LET e == RunEnd(t, i, WordChars)
         IN  CanonicalDrug(Slice(t, i, e)) \o WordFoldFrom(t, e)

\* C10: the drug stage of post_process_transcription replaces every whole-word
\* occurrence of a listed variation, in any letter case, by the canonical name, and
\* changes nothing else: a variation inside a longer word stays as it is.
DrugsFoldedWordwise ==
    "post_process" \in calls => stage.drugs = WordFoldFrom(stage.special, 1)

\* a variation written with a capital letter stood as a whole word and was replaced
CapitalVariantFolded ==
    /\ "post_process" \in calls
    /\ Contains(stage.special, <<" ","P","a","r","a","c","e","t","a","m","o","l">>)
    /\ ~ContainsIC(stage.drugs, <<"p","a","r","a","c","e","t","a","m","o","l">>)
    /\ Contains(stage.drugs, <<" ","p","a","r","a","c","e'","t","a","m","o","l">>)


\* C11: the specialty stage is scoped to the specialty given: with no specialty, or
\* one that is no key of SPECIALTY_TERMS, post_process_transcription gives what it
\* gives with None and the stage changes nothing; and a full term of the table of
\* another specialty than the one given is not folded by the stage.
SpecialtyScoped ==
    "post_process" \in calls =>
        /\ specialty \notin Specialties =>
              /\ processed = post_process_transcription(text, None)
              /\ stage.special = stage.terms
        /\ \A k \in Specialties \ {specialty} :
              \A n \in 1..Len(SPECIALTY_TERMS[k]) :
                 ContainsIC(stage.terms, SPECIALTY_TERMS[k][n][2])
                    => ContainsIC(stage.special, SPECIALTY_TERMS[k][n][2])

\* a cardiology full term and a neurology full term under the cardiology specialty:
\* the first is folded, the second is not
CardiologyFoldedNeurologyKept ==
    /\ "post_process" \in calls
    /\ specialty = "cardiology"
    /\ ContainsIC(stage.terms, <<"B","l","o","c"," ","d","e"," ","B","r","a","n","c","h","e"," ","G","a","u","c","h","e">>)
    /\ ContainsIC(stage.terms, <<"P","o","n","c","t","i","o","n"," ","L","o","m","b","a","i","r","e">>)
    /\ Contains(processed, <<"P","o","n","c","t","i","o","n"," ","L","o","m","b","a","i","r","e","B","B","G">>)

\* C12: POST /transcribe with an empty or missing file_id or file_url is answered
\* with status 400, and nothing has happened: no task queued, no download, no file,
\* no notification; with both fields given it is answered 'processing' and one task
\* is queued.
InvalidRequestRejectedWith400 ==
    (request.endpoint = "transcribe" /\ pc # "request") =>
        IF request.file_id \in {None, ""} \/ request.file_url \in {None, ""}
        THEN /\ response.status = 400
             /\ queued = 0
             /\ downloads = 0
             /\ files = {}
             /\ notifications = <<>>
        ELSE /\ response.detail = "processing"
             /\ queued = 1

NotificationsGoToFrontendUrl ==
    \A n \in 1..Len(notifications) :
        notifications[n].url =
            [base |-> IF env = None THEN DefaultFrontend ELSE env,
             path |-> "/api/update-transcription-text"]

\* C15: POST /transcribe-upload answers with the file_id and the text when the
\* transcription gave one, and with status 500 on every failure; in both cases the
\* temporary file of the upload is deleted and no notification was posted.
UploadAnsweredAndCleaned ==
    (request.endpoint = "upload" /\ pc = "answered") =>
        /\ \/ /\ response.status = 200
              /\ response.file_id = request.file_id
              /\ Some(response.transcription_text) = transcription_text
              /\ Truthy(transcription_text)
           \/ /\ response.status = 500
              /\ ~Truthy(transcription_text)
        /\ TempFile \notin files
        /\ notifications = <<>>

OptimizerFailed ==
    /\ \E i \in 1..Len(stages) : stages[i] = "preparing"
    /\ request.language # None
    /\ OptimizedPath(TempFile, StartsWithFr(request.language)) \notin files

\* C18: when the optimizer fails, transcribe_audio_file goes on with the original
\* file: it is the file that is split and transcribed, every chunk is attempted, and
\* the submission ends in the error state only when no chunk gave a text.
OptimizerFailureNotFatal ==
    OptimizerFailed =>
        /\ optimized_audio = TempFile
        /\ \A i \in 1..Len(chunks) : chunks[i].opt = ""
        /\ pc = "returned" => Len(results) = Len(chunks)
        /\ (pc \in {"chunks", "returned"} /\ file_size <= 25) => chunks = <<TempFile>>
        /\ terminal = <<"error">> => \A k \in 1..Len(results) : ~Truthy(results[k])
        /\ (pc \in {"done", "answered"} /\ \E k \in 1..Len(results) : Truthy(results[k]))
              => terminal = <<"completed">>

\* the optimizer failed, and the submission completed
CompletedWithoutOptimizedFile ==
    /\ OptimizerFailed
    /\ pc = "done"
    /\ terminal = <<"completed">>
    /\ Len(notifications) = 1
    /\ notifications[1].status = "completed"

\* C19: when the probed duration makes chunk_duration zero or negative, split_audio
\* returns no chunk and the submission ends in the error state.
NonPositiveChunkDurationIsError ==
    (/\ request.endpoint = "transcribe"
     /\ file_size > 25
     /\ total_duration.number
     /\ total_duration.seconds <= 0) =>
        /\ chunks = <<>>
        /\ results = <<>>
        /\ pc = "done" => terminal = <<"error">>

\* the place of a stage in the order received, downloading, preparing, transcribing,
\* correcting, completed or error; correcting is the place given
StageRank(name, correcting) ==
    CASE name = "received"     -> 1
      [] name = "downloading"  -> 2
      [] name = "preparing"    -> 3
      [] name = "transcribing" -> 4
      [] name = "correcting"   -> correcting
      [] name = "completed"    -> 6
      [] name = "error"        -> 6

\* no retries: one download at most, one call of the backend per chunk at most, one
\* terminal state at most
NoRetries ==
    /\ downloads <= 1
    /\ Len(results) <= Len(chunks)
    /\ Len(terminal) <= 1

\* C20, as the specification has it: the stages entered only move forward through
\* received, downloading, preparing, transcribing, correcting, and then completed or
\* error, with no retries.
StagesStrictlyForward ==
    request.endpoint = "transcribe" =>
    /\ NoRetries
    /\ \A i, j \in 1..Len(stages) :
          i < j => StageRank(stages[i], 5) <= StageRank(stages[j], 5)

\* C20, as the code has it: the stages entered only move forward through received,
\* downloading, preparing, the loop over the chunks, and then completed or error,
\* with no retries; in the loop each chunk is transcribed and, when the backend
\* answered, its text corrected before the next chunk is transcribed.
StagesForwardWithChunkLoop ==
    request.endpoint = "transcribe" =>
    /\ NoRetries
    /\ \A i, j \in 1..Len(stages) :
          i < j => StageRank(stages[i], 4) <= StageRank(stages[j], 4)
    /\ \A i \in 1..Len(stages) :
          stages[i] = "correcting" => (i > 1 /\ stages[i - 1] = "transcribing")
    /\ \A i \in 1..Len(stages) :
          stages[i] \in {"completed", "error"} => i = Len(stages)

\* two chunks were transcribed and corrected one after the other, and the submission
\* completed
TwoChunksTranscribedAndCorrected ==
    stages = <<"received", "downloading", "preparing", "transcribing", "correcting",
               "transcribing", "correcting", "completed">>

\* C16: generate_structured_note calls the backend once per request and never again;
\* it returns the backend's text as it is when the call succeeded and the fixed
\* sentence 'Error generating structured note' when it failed, and
\* POST /structure-note answers with that string as structured_note.
NoteGeneratedInOneCall ==
    /\ completions <= 1
    /\ note_pc \in {"generated", "answered"} =>
          /\ completions = 1
          /\ structured_note.some
          /\ completion.raised => structured_note.text = Sentinel
          /\ ~completion.raised => structured_note.text = completion.content
    /\ note_pc = "answered" =>
          /\ note_response.status = 200
          /\ note_response.structured_note = structured_note.text

\* the backend failed, and the request is answered with the fixed sentence
AnsweredWithSentinel ==
    /\ note_pc = "answered"
    /\ completion.raised
    /\ completions = 1
    /\ note_response.structured_note = Sentinel

\* C21: the output of post_process_transcription has no two white-space characters
\* side by side, and no white-space character right before one of the punctuation
\* marks , . ; : ! ?
SpacingNormalized ==
    "post_process" \in calls =>
        \A i \in 1..(Len(processed) - 1) :
            IsSpace(processed[i]) =>
                /\ ~IsSpace(processed[i + 1])
                /\ processed[i + 1] \notin Punctuation

\* a tab and a space before a comma: the output is the comma alone
TabSpaceCommaCollapsed ==
    /\ "post_process" \in calls
    /\ text = <<"TAB", " ", ",">>
    /\ processed = <<",">>

\* the terminal state and the notification that the task's own download and its own
\* chunks give
OwnOutcome(t) ==
    IF ~t.downloaded THEN [terminal |-> "error", status |-> "none"]
    ELSE IF \E k \in 1..Len(t.results) : Truthy(t.results[k])
    THEN [terminal |-> "completed", status |-> "completed"]
    ELSE [terminal |-> "error", status |-> "error"]

\* C22: two process_transcription tasks in flight at the same time, with temporary
\* files of different names, are independent in every interleaving: no file is
\* touched (written, read or deleted) by both tasks, every file a task touches is
\* derived from its own temporary file, every file a task reads is there, and the
\* terminal state and the notification of a task are those its own download and its
\* own chunks give, with its own file_id.
TasksIndependent ==
    pc = "tasks" =>
        /\ task[1].touched \cap task[2].touched = {}
        /\ \A i \in Tasks :
              /\ \A p \in task[i].touched : p.base = TempFileOf(i).base
              /\ ~task[i].missing
              /\ \A n \in 1..Len(task[i].notifications) :
                    task[i].notifications[n].file_id = task[i].file_id
              /\ task[i].pc = "done" =>
                    /\ task[i].terminal = <<OwnOutcome(task[i]).terminal>>
                    /\ IF OwnOutcome(task[i]).status = "none"
                       THEN task[i].notifications = <<>>
                       ELSE /\ Len(task[i].notifications) = 1
                            /\ task[i].notifications[1].status =
                                  OwnOutcome(task[i]).status

\* the first task is over, in the error state and its temporary file deleted, while
\* the second is between its two chunks, with all its files there; the two had the
\* same language
FirstOverSecondBetweenChunks ==
    /\ pc = "tasks"
    /\ task[1].language = task[2].language
    /\ task[1].pc = "done"
    /\ task[1].terminal = <<"error">>
    /\ task[1].downloaded
    /\ TempFileOf(1) \notin disk
    /\ task[2].pc = "chunks"
    /\ Len(task[2].chunks) = 2
    /\ Len(task[2].results) = 1
    /\ Truthy(task[2].results[1])
    /\ \A k \in 1..2 : task[2].chunks[k] \in disk
    /\ task[2].optimized_audio # TempFileOf(2)
====
